---- MODULE Spec2Model ----
(***************************************************************************)
(* A model of the agent orchestration core of autopilot:                   *)
(*   - getPRStatus (github.ts): the CI verdict over the legacy Status API   *)
(*     and the Checks API, fetched through withRetry;                      *)
(*   - withRetry (retry.ts): bounded retry of transient failures;          *)
(*   - createWorktree / removeWorktree (worktree.ts) over a git repository, *)
(*     called by one run or by concurrent runs;                            *)
(*   - processAgentMessage / summarizeToolUse (activity.ts) over the        *)
(*     messages of an agent stream;                                        *)
(*   - the activity log of a run in the registry.                          *)
(*                                                                         *)
(* The text of CI details and git errors is a sequence of tokens: a name,  *)
(* a reason and the separators ": " and "\n" are one token each, and "" is *)
(* <<>>. The text of agent messages is a string, character by character.   *)
(***************************************************************************)
EXTENDS Naturals, Sequences, FiniteSets, TLC

VARIABLES
    retry,          \* per endpoint: the state of its withRetry call
    script,         \* the outcomes a scripted operation yields, in order
    pc,             \* position of the getPRStatus call
    result,         \* what getPRStatus resolved to (the withRetry version)
    thrown,         \* what getPRStatus rejected with
    settledResult,  \* what the earlier getPRStatus of the file resolved to
    repo,           \* the git repository and the worktree directories
    wtCalls,        \* the last calls of createWorktree / removeWorktree
    held,           \* per run: the worktree names it was returned a path for
    dirOwner,       \* per name: the run whose call created the directory
    inbox,          \* the agent messages not yet translated, in arrival order
    cwdArg,         \* the cwd argument the translator is given
    translated,     \* the last message and what processAgentMessage did with it
    feed,           \* the activities the consumer of the stream has collected
    activityLog,    \* the activity log of one run in the registry
    appended,       \* every entry appended to that run, in arrival order
    registry,       \* the run registry: running runs, history, pause flag, queue
    observed,       \* what happened to the registry: terminations and toggles
    http,           \* the dashboard server's last request and its response
    explain,        \* the explain script: its agent run and what it did with it
    pager           \* a countIssuesInState call and the pages it is served

callVars == <<retry, script, pc, result, thrown, settledResult>>
wtVars == <<repo, wtCalls, held, dirOwner>>
streamVars == <<inbox, cwdArg, translated, feed>>
logVars == <<activityLog, appended>>
regVars == <<registry, observed, http>>
restVars == <<registry, observed, http, explain, pager>>
vars == <<retry, script, pc, result, thrown, settledResult, repo, wtCalls,
          held, dirOwner, inbox, cwdArg, translated, feed, activityLog, appended,
          registry, observed, http, explain, pager>>

NULL == "null"

(***************************************************************************)
(* Bounds                                                                  *)
(***************************************************************************)
MaxStatuses == 2
MaxChecks == 2
MaxBlocks == 2      \* content blocks of an assistant message
MaxErrors == 2      \* structured errors of an error result
MaxStream == 3      \* messages of an agent stream

RECURSIVE SeqsUpTo(_, _)
SeqsUpTo(S, n) ==
    IF n = 0 THEN {<<>>}
    ELSE LET shorter == SeqsUpTo(S, n - 1)
         IN  shorter \cup {Append(s, x) : s \in {t \in shorter : Len(t) = n - 1}, x \in S}

(***************************************************************************)
(* The data the GitHub endpoints return                                    *)
(***************************************************************************)
ContextName(i) == <<"ci/a", "ci/b", "ci/c", "ci/d">>[i]
CheckName(i) == <<"build", "test", "lint", "e2e">>[i]

\* a legacy status without its context: state and description
StatusKinds ==
    {[state |-> "pending", description |-> NULL],
     [state |-> "success", description |-> NULL],
     [state |-> "failure", description |-> NULL],
     [state |-> "failure", description |-> "boom"],
     [state |-> "error", description |-> NULL],
     [state |-> "error", description |-> "boom"]}

\* a check run without its name: conclusion is null until the run completed
CheckKinds ==
    {[status |-> "in_progress", conclusion |-> NULL]}
    \cup {[status |-> "completed", conclusion |-> c] :
            c \in {"success", "failure", "timed_out", "skipped", "cancelled"}}

NameStatuses(ks) ==
    [i \in 1..Len(ks) |->
        [context |-> ContextName(i), state |-> ks[i].state,
         description |-> ks[i].description]]

NameChecks(ks) ==
    [i \in 1..Len(ks) |->
        [name |-> CheckName(i), status |-> ks[i].status,
         conclusion |-> ks[i].conclusion]]

\* GitHub computes the combined state over the latest status of every
\* context: failure when one is failure or error, else pending when one is
\* pending or there is none, else success. The statuses list is one page of
\* them, so contexts the page does not list can turn the state to failure
\* or pending.
CombinedStates(ks) ==
    IF \E i \in 1..Len(ks) : ks[i].state \in {"failure", "error"} THEN {"failure"}
    ELSE IF Len(ks) = 0 THEN {"pending"}
    ELSE IF \E i \in 1..Len(ks) : ks[i].state = "pending" THEN {"failure", "pending"}
    ELSE {"success", "failure", "pending"}

StatusResults(n) ==
    UNION {{[state |-> st, statuses |-> NameStatuses(ks)] : st \in CombinedStates(ks)} :
             ks \in SeqsUpTo(StatusKinds, n)}

ChecksResults(n) ==
    {[check_runs |-> NameChecks(ks)] : ks \in SeqsUpTo(CheckKinds, n)}

PRs ==
    {[merged |-> m, mergeable |-> mb, branch |-> "feature", sha |-> "abc"] :
        m \in BOOLEAN, mb \in {"true", "false", NULL}}

NoResult == [merged |-> FALSE, mergeable |-> NULL, branch |-> "",
             ciStatus |-> "none", ciDetails |-> <<>>]

(***************************************************************************)
(* Text                                                                    *)
(***************************************************************************)
RECURSIVE join(_, _)
\* Array.prototype.join: the parts with the separator between them
join(parts, sep) ==
    IF Len(parts) = 0 THEN <<>>
    ELSE IF Len(parts) = 1 THEN parts[1]
    ELSE parts[1] \o <<sep>> \o join(Tail(parts), sep)

(***************************************************************************)
(* getPRStatus, lines 264-354: the aggregation of the two sources           *)
(***************************************************************************)
isFailedStatus(status) == status.state = "failure" \/ status.state = "error"

isFailedCheck(check) ==
    check.conclusion = "failure" \/ check.conclusion = "timed_out"

statusDetail(status) ==
    <<status.context, ": ",
      IF status.description = NULL THEN "failed" ELSE status.description>>

checkDetail(check) == <<check.name, ": ", check.conclusion>>

statusDetails(statuses) == [i \in 1..Len(statuses) |-> statusDetail(statuses[i])]
checkDetails(checks) == [i \in 1..Len(checks) |-> checkDetail(checks[i])]

\* lines 309-318
legacyFailureDetails(sr) ==
    IF sr.state = "failure"
    THEN statusDetails(SelectSeq(sr.statuses, isFailedStatus))
    ELSE <<>>

hasFailedCheck(checks) == \E i \in 1..Len(checks) : isFailedCheck(checks[i])

allChecksComplete(checks) ==
    \A i \in 1..Len(checks) : checks[i].status = "completed"

\* a variant that takes every completed check run as passed
allChecksPass_anyConclusion(checks) ==
    \A i \in 1..Len(checks) : checks[i].status = "completed"

allChecksPass(checks) ==
    \A i \in 1..Len(checks) :
        /\ checks[i].status = "completed"
        /\ (checks[i].conclusion = "success" \/ checks[i].conclusion = "skipped")

\* a variant that lists the failed check runs and not the timed-out ones
checkFailureDetails_failureOnly(checks) ==
    checkDetails(SelectSeq(checks, LAMBDA c : c.conclusion = "failure"))

\* lines 331-337
checkFailureDetails(checks) ==
    IF hasFailedCheck(checks)
    THEN checkDetails(SelectSeq(checks, isFailedCheck))
    ELSE <<>>

\* a variant that reports nothing while a check run is still running
aggregateCiStatus_settleFirst(sr, checks) ==
    IF \E i \in 1..Len(checks) : checks[i].status # "completed" THEN "pending"
    ELSE IF sr.state = "failure" \/ hasFailedCheck(checks) THEN "failure"
    ELSE IF sr.state = "success"
            /\ \A i \in 1..Len(checks) :
                  checks[i].conclusion \in {"success", "skipped"}
         THEN "success"
    ELSE "pending"

\* lines 305-341
aggregateCiStatus(sr, checks) ==
    LET afterLegacy == IF sr.state = "failure" THEN "failure" ELSE "pending"
    IN  IF hasFailedCheck(checks) THEN "failure"
        ELSE IF sr.state = "success" /\ allChecksComplete(checks)
                /\ allChecksPass(checks)
             THEN "success"
        ELSE afterLegacy

\* a variant without the generic message
withFallback_none(ciStatus, failureDetails) == failureDetails

\* lines 343-345
withFallback(ciStatus, failureDetails) ==
    IF ciStatus = "failure" /\ Len(failureDetails) = 0
    THEN Append(failureDetails, <<"CI checks failed (see PR for details)">>)
    ELSE failureDetails

mergedStatus(p) ==
    [merged |-> TRUE, mergeable |-> NULL, branch |-> p.branch,
     ciStatus |-> "success", ciDetails |-> <<>>]

\* lines 301-353, given the three responses
ciVerdict(p, sr, cr) ==
    LET checks == cr.check_runs
        ciStatus == aggregateCiStatus(sr, checks)
        failureDetails ==
            withFallback(ciStatus,
                         legacyFailureDetails(sr) \o checkFailureDetails(checks))
    IN  [merged |-> FALSE, mergeable |-> p.mergeable, branch |-> p.branch,
         ciStatus |-> ciStatus, ciDetails |-> join(failureDetails, "\n")]

(***************************************************************************)
(* getPRStatus, lines 86-175: the version without withRetry                 *)
(***************************************************************************)
\* lines 124-128
allSettled(sr, checks) ==
    /\ \A i \in 1..Len(sr.statuses) : sr.statuses[i].state # "pending"
    /\ \A i \in 1..Len(checks) : checks[i].status = "completed"

\* lines 130-162
settledCiStatus(sr, checks) ==
    IF ~allSettled(sr, checks) THEN "pending"
    ELSE IF (sr.state = "failure" \/ sr.state = "error") \/ hasFailedCheck(checks)
         THEN "failure"
    ELSE "success"

\* lines 142-158
settledFailureDetails(sr, checks) ==
    IF settledCiStatus(sr, checks) = "failure"
    THEN statusDetails(SelectSeq(sr.statuses, isFailedStatus))
         \o checkDetails(SelectSeq(checks, isFailedCheck))
    ELSE <<>>

\* lines 99-174
getPRStatusSettled(p, sr, cr) ==
    IF p.merged THEN mergedStatus(p)
    ELSE LET checks == cr.check_runs
             ciStatus == settledCiStatus(sr, checks)
             failureDetails ==
                 withFallback(ciStatus, settledFailureDetails(sr, checks))
         IN  [merged |-> FALSE, mergeable |-> p.mergeable, branch |-> p.branch,
              ciStatus |-> ciStatus, ciDetails |-> join(failureDetails, "\n")]

(***************************************************************************)
(* withRetry (retry.ts)                                                    *)
(***************************************************************************)
MAX_ATTEMPTS == 3
MaxScript == 4

Endpoints == {"pr", "status", "checks"}

\* an error thrown by an operation: its HTTP status when it has one (0: none),
\* whether it is a bare network/connection failure, and the label withRetry
\* annotates it with
Err(status, network) == [status |-> status, network |-> network, label |-> NULL]
Errors ==
    {Err(429, FALSE), Err(503, FALSE), Err(0, TRUE), Err(404, FALSE), Err(0, FALSE)}
NoError == [status |-> 0, network |-> FALSE, label |-> "none"]

\* a variant that takes every HTTP error status as transient
isTransient_anyHttpError(err) == err.status >= 400 \/ err.network

isTransient(err) ==
    err.status = 429 \/ (err.status >= 500 /\ err.status <= 599) \/ err.network

Label(e) ==
    CASE e = "pr" -> "getPR"
      [] e = "status" -> "getStatus"
      [] e = "checks" -> "getChecks"

\* a withRetry call: st is idle (not started), calling (about to invoke the
\* operation), backoff (sleeping before the next attempt), ok or failed
IdleRetry ==
    [st |-> "idle", attempts |-> 0, waits |-> 0, warned |-> 0,
     value |-> NoResult, error |-> NoError]

StartRetry == [IdleRetry EXCEPT !.st = "calling"]

Resolved(v) == [ok |-> TRUE, value |-> v, error |-> NoError]
Rejected(err) == [ok |-> FALSE, value |-> NoResult, error |-> err]

\* variants of the ceiling, one attempt early and one attempt late
exhausted_early(n) == n >= MAX_ATTEMPTS - 1
exhausted_late(n) == n > MAX_ATTEMPTS

\* the attempt ceiling
exhausted(n) == n >= MAX_ATTEMPTS

\* one invocation of the operation by withRetry, and what withRetry does with
\* its outcome
withRetryAttempt(r, outcome, label) ==
    LET n == r.attempts + 1
    IN  IF outcome.ok
        THEN [r EXCEPT !.st = "ok", !.attempts = n, !.value = outcome.value,
                       !.error = NoError]
        ELSE IF ~isTransient(outcome.error)
        THEN [r EXCEPT !.st = "failed", !.attempts = n, !.error = outcome.error]
        ELSE IF exhausted(n)
        THEN [r EXCEPT !.st = "failed", !.attempts = n,
                       !.error = [outcome.error EXCEPT !.label = label]]
        ELSE [r EXCEPT !.st = "backoff", !.attempts = n, !.warned = @ + 1,
                       !.error = outcome.error]

\* the backoff sleep between two attempts has elapsed
withRetryWake(r) == [r EXCEPT !.st = "calling", !.waits = @ + 1]

(***************************************************************************)
(* A withRetry call on a scripted operation: its k-th invocation yields     *)
(* script[k] (linear.test.ts, mockRawRequest)                               *)
(***************************************************************************)
Values == {[data |-> "page1"], [data |-> "page2"]}
Outcomes(vals) == {Resolved(v) : v \in vals} \cup {Rejected(err) : err \in Errors}

ScriptOutcome(k) == IF k <= Len(script) THEN script[k] ELSE script[Len(script)]

ScriptedAttempt ==
    /\ retry["op"].st = "calling"
    /\ retry' = [retry EXCEPT
                   !["op"] = withRetryAttempt(@, ScriptOutcome(@.attempts + 1), "op")]
    /\ UNCHANGED <<script, pc, result, thrown, settledResult, wtVars, streamVars, logVars, restVars>>

Backoff(e) ==
    /\ retry[e].st = "backoff"
    /\ retry' = [retry EXCEPT ![e] = withRetryWake(@)]
    /\ UNCHANGED <<script, pc, result, thrown, settledResult, wtVars, streamVars, logVars, restVars>>

BackoffOp == Backoff("op")

(***************************************************************************)
(* getPRStatus, lines 264-354: the call                                     *)
(***************************************************************************)
MaxCallEntries == 1

Responses(e, n) ==
    CASE e = "pr" -> PRs
      [] e = "status" -> StatusResults(n)
      [] e = "checks" -> ChecksResults(n)

\* one request to an endpoint, inside its withRetry. A withRetry that gives
\* up rejects the await of line 271 or the Promise.all of line 289, which
\* rejects getPRStatus with that error; the other fetch is not cancelled.
\* a variant in which a fetch that gives up does not reject the call
Attempt_swallows(e) ==
    /\ retry[e].st = "calling"
    /\ \E outcome \in Outcomes(Responses(e, MaxCallEntries)) :
          LET r == withRetryAttempt(retry[e], outcome, Label(e))
          IN  retry' = [retry EXCEPT ![e] = IF r.st = "failed"
                                            THEN [r EXCEPT !.st = "ok", !.value =
                                                    CHOOSE v \in Responses(e, 0) : TRUE]
                                            ELSE r]
    /\ UNCHANGED <<script, pc, thrown, result, settledResult, wtVars, streamVars,
                   logVars, restVars>>

Attempt(e) ==
    /\ retry[e].st = "calling"
    /\ \E outcome \in Outcomes(Responses(e, MaxCallEntries)) :
          LET r == withRetryAttempt(retry[e], outcome, Label(e))
              rejects == r.st = "failed" /\ pc \in {"pr", "ci"}
          IN  /\ retry' = [retry EXCEPT ![e] = r]
              /\ pc' = IF rejects THEN "rejected" ELSE pc
              /\ thrown' = IF rejects THEN r.error ELSE thrown
    /\ UNCHANGED <<script, result, settledResult, wtVars, streamVars, logVars, restVars>>

\* a variant that fetches the CI status of a merged PR too
afterPR_alwaysFetch(p) == [pc |-> "ci", result |-> NoResult, fetch |-> TRUE]

\* lines 276-299: what follows the PR fetch
afterPR(p) ==
    IF p.merged
    THEN [pc |-> "done", result |-> mergedStatus(p), fetch |-> FALSE]
    ELSE [pc |-> "ci", result |-> NoResult, fetch |-> TRUE]

\* a variant that starts the check-runs fetch only after the status fetch
ContinueAfterPR_statusFirst ==
    /\ pc = "pr"
    /\ retry["pr"].st = "ok"
    /\ LET next == afterPR(retry["pr"].value)
       IN  /\ pc' = next.pc
           /\ result' = next.result
           /\ retry' = IF next.fetch
                       THEN [retry EXCEPT !["status"] = StartRetry]
                       ELSE retry
    /\ UNCHANGED <<script, thrown, settledResult, wtVars, streamVars, logVars, restVars>>

ContinueAfterPR ==
    /\ pc = "pr"
    /\ retry["pr"].st = "ok"
    /\ LET next == afterPR(retry["pr"].value)
       IN  /\ pc' = next.pc
           /\ result' = next.result
           /\ retry' = IF next.fetch
                       THEN [retry EXCEPT !["status"] = StartRetry,
                                          !["checks"] = StartRetry]
                       ELSE retry
    /\ UNCHANGED <<script, thrown, settledResult, wtVars, streamVars, logVars, restVars>>

\* lines 301-353: both fetches resolved
Finish ==
    /\ pc = "ci"
    /\ retry["status"].st = "ok"
    /\ retry["checks"].st = "ok"
    /\ pc' = "done"
    /\ result' = ciVerdict(retry["pr"].value, retry["status"].value,
                           retry["checks"].value)
    /\ UNCHANGED <<retry, script, thrown, settledResult, wtVars, streamVars, logVars, restVars>>

\* lines 86-175 on the same responses
FinishSettled ==
    /\ pc = "done"
    /\ settledResult = NoResult
    /\ settledResult' =
          getPRStatusSettled(retry["pr"].value, retry["status"].value,
                             retry["checks"].value)
    /\ UNCHANGED <<retry, script, pc, result, thrown, wtVars, streamVars, logVars, restVars>>

(***************************************************************************)
(* worktree.ts over a git repository                                       *)
(*                                                                         *)
(* repo.wt[n] is the worktree named n: dir is "none" (nothing at the path), *)
(* "plain" (a non-empty directory git does not know as a worktree) or       *)
(* "linked" (a worktree directory whose .git file points at its metadata);  *)
(* meta says git holds worktree metadata for the path, head the branch that *)
(* metadata has checked out. repo.local are the local branches,             *)
(* repo.tracking the remote-tracking ones.                                  *)
(***************************************************************************)
Names == {"a", "b"}
WorktreeBranch(name) == "worktree-" \o name
FromBranches == {"feature"}
Branches == {WorktreeBranch(n) : n \in Names} \cup FromBranches

NoWorktree == [dir |-> "none", meta |-> FALSE, head |-> NULL]
EmptyRepo == [wt |-> [n \in Names |-> NoWorktree], local |-> {}, tracking |-> {}]

\* line 5-7
worktreePath(projectPath, name) == <<projectPath, ".claude", "worktrees", name>>

Done(r) == [repo |-> r, err |-> FALSE]
Failed(r) == [repo |-> r, err |-> TRUE]

CheckedOut(r, branch) == \E n \in Names : r.wt[n].meta /\ r.wt[n].head = branch

\* git worktree prune: drops the metadata of every worktree whose directory
\* is gone or no longer links back
gitPrune(r) ==
    [r EXCEPT !.wt = [n \in Names |->
        IF r.wt[n].meta /\ r.wt[n].dir # "linked"
        THEN [r.wt[n] EXCEPT !.meta = FALSE, !.head = NULL]
        ELSE r.wt[n]]]

\* git worktree remove <path> --force
gitWorktreeRemove(r, name) ==
    IF ~r.wt[name].meta THEN Failed(r)              \* not a working tree
    ELSE IF r.wt[name].dir = "plain" THEN Failed(r) \* validation failed
    ELSE Done([r EXCEPT !.wt[name] = NoWorktree])

\* git branch -D <branch>
gitBranchDelete(r, branch) ==
    IF branch \notin r.local THEN Failed(r)         \* branch not found
    ELSE IF CheckedOut(r, branch) THEN Failed(r)    \* checked out in a worktree
    ELSE Done([r EXCEPT !.local = @ \ {branch}])

PathFree(r, name) == r.wt[name].dir = "none" /\ ~r.wt[name].meta

\* git worktree add <path> -b <branch>
gitWorktreeAddNew(r, name, branch) ==
    IF ~PathFree(r, name) THEN Failed(r)            \* path exists / registered
    ELSE IF branch \in r.local THEN Failed(r)       \* branch already exists
    ELSE Done([r EXCEPT !.local = @ \cup {branch},
                        !.wt[name] = [dir |-> "linked", meta |-> TRUE,
                                      head |-> branch]])

\* git worktree add <path> <branch>
gitWorktreeAddExisting(r, name, branch) ==
    IF ~PathFree(r, name) THEN Failed(r)
    ELSE IF branch \in r.local /\ CheckedOut(r, branch) THEN Failed(r)
    ELSE IF branch \notin r.local /\ branch \notin r.tracking
    THEN Failed(r)                                  \* invalid reference
    ELSE Done([r EXCEPT !.local = @ \cup {branch},
                        !.wt[name] = [dir |-> "linked", meta |-> TRUE,
                                      head |-> branch]])

\* git fetch origin <branch>: reachable says whether origin answered with it
gitFetch(r, branch, reachable) ==
    IF ~reachable THEN Failed(r)
    ELSE Done([r EXCEPT !.tracking = @ \cup {branch}])

\* a variant that never finds the stale directory
existsSync_never(r, name) == FALSE

existsSync(r, name) == r.wt[name].dir # "none"

\* a variant that gives up at the first git command that fails
removeWorktree_stopsAtFailure(r, name, keepBranch) ==
    LET removed == gitWorktreeRemove(r, name)
    IN  IF removed.err
        THEN [repo |-> r, threw |-> TRUE, steps |-> <<"worktree remove">>,
              warnings |-> {"worktree"}]
        ELSE [repo |-> gitPrune(removed.repo), threw |-> FALSE,
              steps |-> <<"worktree remove", "worktree prune">>,
              warnings |-> {}]

\* a variant that deletes the branch whatever keepBranch says
removeWorktree_ignoresKeepBranch(r, name, keepBranch) ==
    LET removed == gitWorktreeRemove(r, name)
        deleted == gitBranchDelete(gitPrune(removed.repo), WorktreeBranch(name))
    IN  [repo |-> deleted.repo,
         threw |-> FALSE,
         steps |-> <<"worktree remove", "worktree prune", "branch -D">>,
         warnings |-> (IF removed.err THEN {"worktree"} ELSE {})
                      \cup (IF deleted.err THEN {"branch"} ELSE {})]

\* lines 84-107: steps are the git commands run, in order; warnings the
\* ones whose failure was logged; the function has no throw
removeWorktree(r, name, keepBranch) ==
    LET removed == gitWorktreeRemove(r, name)
        pruned == gitPrune(removed.repo)
        deleted == IF ~keepBranch
                   THEN gitBranchDelete(pruned, WorktreeBranch(name))
                   ELSE Done(pruned)
    IN  [repo |-> deleted.repo,
         threw |-> FALSE,
         steps |-> <<"worktree remove", "worktree prune">>
                   \o (IF ~keepBranch THEN <<"branch -D">> ELSE <<>>),
         warnings |-> (IF removed.err THEN {"worktree"} ELSE {})
                      \cup (IF deleted.err THEN {"branch"} ELSE {})]

\* lines 56-58 and 69-71: the message of the thrown Error
createError(name, err) == <<"Failed to create worktree '", name, "': ", err>>

\* lines 33-75; fromBranch is NULL when not given
createWorktree(r, projectPath, name, fromBranch, reachable) ==
    LET wtPath == worktreePath(projectPath, name)
        pruned == gitPrune(r)
        stale == existsSync(pruned, name)
        purged == removeWorktree(pruned, name, fromBranch # NULL)
        cleared == IF stale THEN purged.repo ELSE pruned
        fetched == gitFetch(cleared, fromBranch, reachable)
        added ==
            IF fromBranch # NULL
            THEN gitWorktreeAddExisting(fetched.repo, name, fromBranch)
            ELSE gitWorktreeAddNew(
                     gitBranchDelete(cleared, WorktreeBranch(name)).repo, name,
                     WorktreeBranch(name))
    IN  [repo |-> added.repo, threw |-> added.err,
         path |-> IF added.err THEN <<>> ELSE wtPath,
         error |-> IF added.err THEN createError(name, "git") ELSE <<>>,
         steps |-> <<"worktree prune">>
                   \o (IF stale THEN purged.steps ELSE <<>>)
                   \o (IF fromBranch # NULL THEN <<"fetch", "worktree add">>
                       ELSE <<"branch -D", "worktree add -b">>),
         failed |-> (IF fromBranch # NULL /\ fetched.err THEN {"fetch"} ELSE {})
                    \cup (IF added.err THEN {"worktree add"} ELSE {})]

ProjectRoot == "/repo"
Runs == {"r1", "r2"}

NoCall == [op |-> "none", run |-> NULL, name |-> "", fromBranch |-> NULL,
           keepBranch |-> FALSE, threw |-> FALSE, path |-> <<>>, error |-> <<>>,
           steps |-> <<>>, failed |-> {}]

\* the last two calls, the latest first
Record(call) == <<call, wtCalls[1]>>

\* the run whose createWorktree made the directory now at each path
Owners(r, created, run) ==
    [n \in Names |-> IF n = created THEN run
                     ELSE IF r.wt[n].dir = "none" THEN NULL
                     ELSE dirOwner[n]]

\* one run calls createWorktree; the call is synchronous, so it is one step
CreateWorktree(run, name, fromBranch) ==
    \E reachable \in BOOLEAN :
        LET out == createWorktree(repo, ProjectRoot, name, fromBranch, reachable)
        IN  /\ fromBranch = NULL => reachable
            /\ repo' = out.repo
            /\ wtCalls' = Record([NoCall EXCEPT
                              !.op = "create", !.run = run, !.name = name,
                              !.fromBranch = fromBranch, !.threw = out.threw,
                              !.path = out.path, !.error = out.error,
                              !.steps = out.steps, !.failed = out.failed])
            /\ held' = [held EXCEPT ![run] = IF out.threw THEN @ \ {name}
                                              ELSE @ \cup {name}]
            /\ dirOwner' = Owners(out.repo, IF out.threw THEN NULL ELSE name, run)
            /\ UNCHANGED <<callVars, streamVars, logVars, restVars>>

\* one run calls removeWorktree
RemoveWorktree(run, name, keepBranch) ==
    LET out == removeWorktree(repo, name, keepBranch)
    IN  /\ repo' = out.repo
        /\ wtCalls' = Record([NoCall EXCEPT
                          !.op = "remove", !.run = run, !.name = name,
                          !.keepBranch = keepBranch, !.threw = out.threw,
                          !.steps = out.steps, !.failed = out.warnings])
        /\ held' = [held EXCEPT ![run] = @ \ {name}]
        /\ dirOwner' = Owners(out.repo, NULL, run)
        /\ UNCHANGED <<callVars, streamVars, logVars, restVars>>

\* lines 40-42: a worktree directory deleted without `git worktree remove`
DirectoryDeleted(name) ==
    /\ repo.wt[name].dir # "none"
    /\ repo' = [repo EXCEPT !.wt[name].dir = "none"]
    /\ wtCalls' = Record([NoCall EXCEPT !.op = "rm", !.name = name])
    /\ dirOwner' = [dirOwner EXCEPT ![name] = NULL]
    /\ UNCHANGED <<held, callVars, streamVars, logVars, restVars>>

\* lines 45-46: a directory at the path that is no worktree git knows
\* (an interrupted removal deleted the metadata and left files behind)
DirectoryLeftBehind(name) ==
    /\ repo.wt[name].dir = "linked"
    /\ repo' = [repo EXCEPT !.wt[name] = [dir |-> "plain", meta |-> FALSE,
                                          head |-> NULL]]
    /\ wtCalls' = Record([NoCall EXCEPT !.op = "left", !.name = name])
    /\ UNCHANGED <<held, dirOwner, callVars, streamVars, logVars, restVars>>

\* lines 63-64: a branch without its worktree (older tooling created it)
BranchLeftBehind(name) ==
    /\ WorktreeBranch(name) \notin repo.local
    /\ repo' = [repo EXCEPT !.local = @ \cup {WorktreeBranch(name)}]
    /\ wtCalls' = Record([NoCall EXCEPT !.op = "branch", !.name = name])
    /\ UNCHANGED <<held, dirOwner, callVars, streamVars, logVars, restVars>>

(***************************************************************************)
(* activity.ts: the values of an agent message                             *)
(*                                                                         *)
(* A JavaScript value is a record tagged with its type in t; a string is a *)
(* string of the model, an array a sequence, an object a function from its  *)
(* property names. An operation that can throw a TypeError yields           *)
(* [raised |-> TRUE]; otherwise [raised |-> FALSE, v |-> its value].        *)
(***************************************************************************)
Undefined == [t |-> "undefined"]
JsNull == [t |-> "null"]
Str(s) == [t |-> "string", v |-> s]
Num(n) == [t |-> "number", v |-> n]
Arr(seq) == [t |-> "array", v |-> seq]
Obj(fields) == [t |-> "object", v |-> fields]
NaN == [t |-> "nan"]
JsTrue == [t |-> "boolean", v |-> TRUE]

Nullish(x) == x.t \in {"undefined", "null"}

\* x.k for a value that is not null or undefined
Get(x, k) ==
    IF x.t = "object" /\ k \in DOMAIN x.v THEN x.v[k]
    ELSE IF x.t \in {"string", "array"} /\ k = "length" THEN Num(Len(x.v))
    ELSE Undefined

\* k in x, for an object or an array
Has(x, k) ==
    \/ x.t = "object" /\ k \in DOMAIN x.v
    \/ x.t = "array" /\ k = "length"

Truthy(x) ==
    CASE Nullish(x) -> FALSE
      [] x.t = "string" -> x.v # ""
      [] x.t = "nan" -> FALSE
      [] x.t = "number" -> x.v # 0
      [] x.t = "boolean" -> x.v
      [] OTHER -> TRUE

\* a ?? b and a || b
Coalesce(a, b) == IF Nullish(a) THEN b ELSE a
Either(a, b) == IF Truthy(a) THEN a ELSE b

Digit(d) == SubSeq("0123456789", d + 1, d + 1)

RECURSIVE NumStr(_)
NumStr(n) == IF n < 10 THEN Digit(n) ELSE NumStr(n \div 10) \o Digit(n % 10)

RECURSIVE toString(_)
RECURSIVE JoinWith(_, _)
\* Array.prototype.join: null and undefined elements give ""
JoinWith(seq, sep) ==
    IF seq = <<>> THEN ""
    ELSE LET first == IF Nullish(Head(seq)) THEN "" ELSE toString(Head(seq))
         IN  IF Len(seq) = 1 THEN first
             ELSE first \o sep \o JoinWith(Tail(seq), sep)

\* String(x) and `${x}`
toString(x) ==
    CASE x.t = "string" -> x.v
      [] x.t = "undefined" -> "undefined"
      [] x.t = "null" -> "null"
      [] x.t = "nan" -> "NaN"
      [] x.t = "number" -> NumStr(x.v)
      [] x.t = "boolean" -> IF x.v THEN "true" ELSE "false"
      [] x.t = "array" -> JoinWith(x.v, ",")
      [] OTHER -> "[object Object]"

startsWith(s, prefix) ==
    Len(prefix) <= Len(s) /\ SubSeq(s, 1, Len(prefix)) = prefix

\* s.slice(n) and s.slice(0, n), for a string or an array
sliceFrom(s, n) == SubSeq(s, n + 1, Len(s))
sliceTo(s, n) == IF Len(s) <= n THEN s ELSE SubSeq(s, 1, n)

\* a variant that keeps the separator
dropLeadingSlash_keeps(s) == s

\* s.replace(/^\//, "")
dropLeadingSlash(s) == IF startsWith(s, "/") THEN sliceFrom(s, 1) ELSE s

RECURSIVE split(_, _)
\* s.split(sep) for a non-empty sep
split(s, sep) ==
    LET hits == {i \in 1..Len(s) : startsWith(sliceFrom(s, i - 1), sep)}
    IN  IF hits = {} THEN <<s>>
        ELSE LET i == CHOOSE h \in hits : \A g \in hits : h <= g
             IN  <<SubSeq(s, 1, i - 1)>> \o split(sliceFrom(s, i - 1 + Len(sep)), sep)

(***************************************************************************)
(* activity.ts: summarizeToolUse and processAgentMessage                   *)
(***************************************************************************)
Ok(x) == [raised |-> FALSE, v |-> x]
TypeError == [raised |-> TRUE, v |-> Undefined]

\* lines 10-29
TOOL_SUMMARY_FIELDS ==
    [Read |-> "file_path", Write |-> "file_path", Edit |-> "file_path",
     NotebookEdit |-> "notebook_path", Bash |-> "command", Glob |-> "pattern",
     Grep |-> "pattern", WebFetch |-> "url", WebSearch |-> "query",
     ToolSearch |-> "query", TodoWrite |-> "subject", TaskCreate |-> "subject",
     TaskUpdate |-> "taskId", TaskOutput |-> "task_id", TaskStop |-> "task_id",
     TeamCreate |-> "team_name", TeamDelete |-> "team_name",
     SendMessage |-> "recipient"]

\* lines 32-40, for a string
shortToolName(name) ==
    IF startsWith(name, "mcp__")
    THEN LET parts == split(sliceFrom(name, 5), "__")
         IN  IF Len(parts) >= 2
             THEN parts[Len(parts) - 1] \o "/" \o parts[Len(parts)]
             ELSE parts[1]
    ELSE name

\* a variant that removes the cwd wherever the value holds it
stripCwd_everywhere(value, cwd) ==
    IF Truthy(cwd) THEN JoinWith([i \in 1..Len(split(value, cwd.v)) |->
                                    Str(dropLeadingSlash(split(value, cwd.v)[i]))], "")
    ELSE value

\* lines 55-57
stripCwd(value, cwd) ==
    IF Truthy(cwd) /\ startsWith(value, cwd.v)
    THEN dropLeadingSlash(sliceFrom(value, Len(cwd.v)))
    ELSE value

\* lines 42-66
summarizeToolUse(toolName, input, cwd) ==
    LET inp == IF input.t \in {"object", "array"} THEN input ELSE Obj(<<>>)
        key == toString(toolName)
    IN  IF key \in DOMAIN TOOL_SUMMARY_FIELDS
        THEN LET field == TOOL_SUMMARY_FIELDS[key]
                 value == toString(Coalesce(Get(inp, field), Str("")))
             IN  Ok(Str(key \o ": " \o stripCwd(value, cwd)))
        ELSE IF toolName = Str("Task")
        THEN Ok(Str("Task: " \o toString(
                 Coalesce(Get(inp, "description"),
                          Coalesce(Get(inp, "subagent_type"), Str("subagent"))))))
        ELSE IF toolName.t # "string" THEN TypeError    \* name.startsWith
        ELSE Ok(Str(shortToolName(toolName.v) \o ": "))

\* an ActivityEntry without its timestamp; a key left out is Undefined
Activity(type, summary, detail, isSubagent) ==
    [type |-> type, summary |-> summary, detail |-> detail,
     isSubagent |-> isSubagent]

\* lines 76-85: keys are the keys of the returned object
Returned(activities, keys, sessionId, successResult, errorMessage) ==
    [raised |-> FALSE, activities |-> activities, keys |-> keys,
     sessionId |-> sessionId, successResult |-> successResult,
     errorMessage |-> errorMessage]

Only(activities) ==
    Returned(activities, {"activities"}, Undefined, Undefined, Undefined)

Threw ==
    [raised |-> TRUE, activities |-> <<>>, keys |-> {}, sessionId |-> Undefined,
     successResult |-> Undefined, errorMessage |-> Undefined]

SUMMARY_LENGTH == 200

\* a variant that does not truncate
slice200_whole(x) ==
    IF x.t \in {"string", "array"} THEN Ok(x) ELSE TypeError

\* x.slice(0, 200) for any value
slice200(x) ==
    CASE x.t = "string" -> Ok(Str(sliceTo(x.v, SUMMARY_LENGTH)))
      [] x.t = "array" -> Ok(Arr(sliceTo(x.v, SUMMARY_LENGTH)))
      [] OTHER -> TypeError

\* lines 153-168: the activities of one content block
blockActivity(block, isSubagent, cwd) ==
    IF Nullish(block) THEN TypeError                       \* block.type
    ELSE IF Get(block, "type") = Str("tool_use") /\ Has(block, "name")
    THEN LET summary == summarizeToolUse(Get(block, "name"), Get(block, "input"), cwd)
         IN  IF summary.raised THEN TypeError
             ELSE Ok(<<Activity("tool_use", summary.v, Undefined, isSubagent)>>)
    ELSE IF Get(block, "type") = Str("text") /\ Has(block, "text")
    THEN LET summary == slice200(Get(block, "text"))
         IN  IF summary.raised THEN TypeError
             ELSE Ok(<<Activity("text", summary.v, Get(block, "text"), isSubagent)>>)
    ELSE Ok(<<>>)

RECURSIVE blockActivities(_, _, _)
\* lines 152-169: the loop over the content blocks
blockActivities(content, isSubagent, cwd) ==
    IF content = <<>> THEN Ok(<<>>)
    ELSE LET first == blockActivity(Head(content), isSubagent, cwd)
             rest == blockActivities(Tail(content), isSubagent, cwd)
         IN  IF first.raised \/ rest.raised THEN TypeError
             ELSE Ok(first.v \o rest.v)

\* lines 123-125
durationStr(usage) ==
    IF ~Truthy(usage) THEN ""
    ELSE LET ms == Get(usage, "duration_ms")
             seconds == CASE ms.t = "number" -> Num((ms.v + 500) \div 1000)
                          [] ms.t = "null" -> Num(0)
                          [] OTHER -> NaN
         IN  toString(seconds) \o "s, " \o toString(Get(usage, "tool_uses"))
                 \o " tools"

parenthesised(text) == IF text # "" THEN " (" \o text \o ")" ELSE ""

\* lines 120-144
taskNotification(message) ==
    LET duration == parenthesised(durationStr(Get(message, "usage")))
        detail == Either(Get(message, "summary"), Undefined)
    IN  IF Get(message, "status") = Str("completed")
        THEN Only(<<Activity("result", Str("Subagent completed" \o duration),
                             detail, JsTrue)>>)
        ELSE Only(<<Activity("error",
                             Str("Subagent " \o toString(Get(message, "status"))
                                     \o duration),
                             detail, JsTrue)>>)

\* lines 146-171
assistantTurn(message, cwd) ==
    LET isSubagent == IF Nullish(Get(message, "parent_tool_use_id"))
                      THEN Undefined ELSE JsTrue
        content == Get(Get(message, "message"), "content")
        blocks == blockActivities(content.v, isSubagent, cwd)
    IN  IF content.t # "array" THEN Only(<<>>)
        ELSE IF blocks.raised THEN Threw
        ELSE Only(blocks.v)

\* lines 189-200
errorResult(message) ==
    LET errors == Get(message, "errors")
        length == IF Nullish(errors) THEN Undefined ELSE Get(errors, "length")
        joined == IF errors.t = "array" THEN Ok(Str(JoinWith(errors.v, "; ")))
                  ELSE TypeError                            \* errors.join
        errorMessage == IF Truthy(length) THEN joined
                        ELSE Ok(Get(message, "subtype"))
        shown == slice200(errorMessage.v)
    IN  IF errorMessage.raised \/ shown.raised THEN Threw
        ELSE Returned(<<Activity("error",
                                 Str("Agent error: " \o toString(shown.v)),
                                 Undefined, Undefined)>>,
                      {"activities", "errorMessage"},
                      Undefined, Undefined, errorMessage.v)

\* a variant of the success result that sets an error message too
successResult_withError(message) ==
    Returned(<<Activity("result", Str("Agent completed successfully"),
                        Undefined, Undefined)>>,
             {"activities", "successResult", "errorMessage"}, Undefined,
             Obj([result |-> Get(message, "result"),
                  costUsd |-> Get(message, "total_cost_usd"),
                  durationMs |-> Get(message, "duration_ms"),
                  numTurns |-> Get(message, "num_turns")]),
             Get(message, "subtype"))

\* lines 174-188
successResult(message) ==
    Returned(<<Activity("result", Str("Agent completed successfully"),
                        Undefined, Undefined)>>,
             {"activities", "successResult"}, Undefined,
             Obj([result |-> Get(message, "result"),
                  costUsd |-> Get(message, "total_cost_usd"),
                  durationMs |-> Get(message, "duration_ms"),
                  numTurns |-> Get(message, "num_turns")]),
             Undefined)

\* lines 87-204; cwd is Undefined when not given
processAgentMessage(message, cwd) ==
    IF Nullish(message) THEN Threw                          \* msg.type
    ELSE LET type == Get(message, "type")
             subtype == Get(message, "subtype")
         IN  CASE type = Str("system") /\ subtype = Str("init") ->
                    Returned(<<Activity("status", Str("Agent started"),
                                        Undefined, Undefined)>>,
                             {"activities", "sessionId"},
                             Get(message, "session_id"), Undefined, Undefined)
               [] type = Str("system") /\ subtype = Str("task_started") ->
                    Only(<<Activity("status",
                             Str("Spawned: " \o toString(
                                 Either(Get(message, "description"),
                                        Either(Get(message, "task_type"),
                                               Str("subagent"))))),
                             Undefined, JsTrue)>>)
               [] type = Str("system") /\ subtype = Str("task_notification") ->
                    taskNotification(message)
               [] type = Str("assistant") /\ Truthy(Get(message, "message")) ->
                    assistantTurn(message, cwd)
               [] type = Str("result") /\ subtype = Str("success") ->
                    successResult(message)
               [] type = Str("result") /\ subtype # Str("success") ->
                    errorResult(message)
               [] OTHER -> Only(<<>>)

(***************************************************************************)
(* The messages the translator is given                                    *)
(***************************************************************************)
RECURSIVE Repeat(_, _)
\* the character c, n times
Repeat(c, n) ==
    IF n = 0 THEN ""
    ELSE LET half == Repeat(c, n \div 2)
         IN  IF n % 2 = 0 THEN half \o half ELSE half \o half \o c

Workdir == "/w"
Cwds == {Undefined, Str(""), Str(Workdir)}

\* raw values of a path field: under the workdir, the workdir itself, the
\* workdir twice, the workdir as a proper part of a name, and outside it
PathValues ==
    {"/w/src/app.ts", "/w", "/w/", "/w//x", "/w/w/f", "/w/a/w/f", "/wx/f",
     "x/w/f", "src/app.ts", "/", ""}

ToolUse(name, input) ==
    Obj([type |-> Str("tool_use"), id |-> Str("t1"), name |-> name,
         input |-> input])

ReadBlocks == {ToolUse(Str("Read"), Obj([file_path |-> Str(path)])) : path \in PathValues}

ToolBlocks ==
    ReadBlocks
    \cup {ToolUse(Str("Bash"), Obj([command |-> Str("ls /w/src")])),
          ToolUse(Str("Grep"), Obj([pattern |-> Num(7)])),
          ToolUse(Str("Edit"), JsNull),
          ToolUse(Str("Task"), Obj([description |-> Str("explore")])),
          ToolUse(Str("Task"), Obj([subagent_type |-> Str("Explore")])),
          ToolUse(Str("Task"), Undefined),
          ToolUse(Str("mcp__linear__get_issue"), Obj(<<>>)),
          ToolUse(Str("mcp__a__b__c"), Obj(<<>>)),
          ToolUse(Str("mcp__solo"), Obj(<<>>)),
          ToolUse(Str("Custom"), Obj(<<>>)),
          ToolUse(Undefined, Obj(<<>>)),
          ToolUse(Num(7), Obj(<<>>)),
          Obj([type |-> Str("tool_use"), id |-> Str("t1")])}

TextBlock(text) == Obj([type |-> Str("text"), text |-> text])

TextBlocks ==
    {TextBlock(Str(Repeat("x", n))) :
        n \in {0, 1, SUMMARY_LENGTH, SUMMARY_LENGTH + 1}}
    \cup {TextBlock(Num(7)), TextBlock(Undefined), TextBlock(Arr(<<Str("x")>>)),
          Obj([type |-> Str("text")])}

OtherBlocks ==
    {Obj([type |-> Str("thinking"), thinking |-> Str("hm")]), Obj(<<>>),
     JsNull, Undefined, Str("text"), Num(7)}

Blocks == ToolBlocks \cup TextBlocks \cup OtherBlocks

\* the blocks that longer contents are made of
FewBlocks ==
    {ToolUse(Str("Read"), Obj([file_path |-> Str("/w/src/app.ts")])),
     ToolUse(Str("Custom"), Obj(<<>>)),
     TextBlock(Str("hello")),
     Obj([type |-> Str("thinking"), thinking |-> Str("hm")]),
     JsNull}

Contents ==
    {Undefined, Str("hello")}
    \cup {Arr(<<b>>) : b \in Blocks}
    \cup {Arr(c) : c \in SeqsUpTo(FewBlocks, MaxBlocks)}

ParentIds == {Undefined, JsNull, Str("t0")}

Assistant(content, parent) ==
    Obj([type |-> Str("assistant"), message |-> Obj([content |-> content]),
         parent_tool_use_id |-> parent])

AssistantMessages ==
    {Assistant(c, parent) : c \in Contents, parent \in ParentIds}
    \cup {Obj([type |-> Str("assistant")]),
          Obj([type |-> Str("assistant"), message |-> JsNull]),
          Obj([type |-> Str("assistant"), message |-> Str("hello")])}

SystemMessages ==
    {Obj([type |-> Str("system"), subtype |-> Str("init"), session_id |-> sid]) :
        sid \in {Str("s1"), Undefined}}
    \cup {Obj([type |-> Str("system"), subtype |-> Str("init")]),
          Obj([type |-> Str("system")]),
          Obj([type |-> Str("system"), subtype |-> Str("compact_boundary")])}
    \cup {Obj([type |-> Str("system"), subtype |-> Str("task_started"),
               description |-> d, task_type |-> k]) :
            d \in {Str("explore"), Str(""), Undefined},
            k \in {Str("local_agent"), Undefined}}
    \cup {Obj([type |-> Str("system"), subtype |-> Str("task_notification"),
               status |-> st, usage |-> u, summary |-> sm]) :
            st \in {Str("completed"), Str("failed"), Str("stopped"), Undefined},
            u \in {Undefined, Obj(<<>>),
                   Obj([duration_ms |-> Num(1500), tool_uses |-> Num(12)])},
            sm \in {Str("found it"), Str(""), Undefined}}

ErrorTexts ==
    {Str(Repeat("e", n)) :
        n \in {1, SUMMARY_LENGTH - 1, SUMMARY_LENGTH, SUMMARY_LENGTH + 1}}

ErrorLists ==
    {Arr(e) : e \in SeqsUpTo(ErrorTexts, MaxErrors)}

ErrorSubtypes == {Str("error_max_turns"), Str("error_during_execution")}

ResultMessages ==
    {Obj([type |-> Str("result"), subtype |-> Str("success"), result |-> r,
          total_cost_usd |-> Num(1), duration_ms |-> Num(1500),
          num_turns |-> Num(3)]) : r \in {Str("done"), Str(""), Undefined}}
    \cup {Obj([type |-> Str("result"), subtype |-> Str("success")])}
    \cup {Obj([type |-> Str("result"), subtype |-> st, errors |-> e]) :
            st \in ErrorSubtypes, e \in ErrorLists}
    \cup {Obj([type |-> Str("result"), subtype |-> st]) :
            st \in ErrorSubtypes \cup {Str(Repeat("s", SUMMARY_LENGTH + 1))}}
    \cup {Obj([type |-> Str("result")]),
          Obj([type |-> Str("result"), errors |-> Arr(<<>>)]),
          Obj([type |-> Str("result"), subtype |-> JsNull, errors |-> JsNull]),
          Obj([type |-> Str("result"), subtype |-> Num(7)]),
          Obj([type |-> Str("result"), subtype |-> Str("error_max_turns"),
               errors |-> Str("boom")]),
          Obj([type |-> Str("result"), errors |-> Arr(<<Str("boom")>>)])}

OtherMessages ==
    {JsNull, Undefined, Str("result"), Num(7), Arr(<<>>), Obj(<<>>),
     Obj([type |-> Str("user")]), Obj([type |-> Str("stream_event")]),
     Obj([type |-> Num(7)]), Obj([subtype |-> Str("init")])}

Messages ==
    SystemMessages \cup AssistantMessages \cup ResultMessages \cup OtherMessages

(***************************************************************************)
(* The consumer of an agent stream, and the activity log of a run          *)
(***************************************************************************)
NoOutcome ==
    [called |-> FALSE, message |-> Undefined, seen |-> <<>>, result |-> Only(<<>>)]

StreamIdle ==
    /\ inbox = <<>>
    /\ cwdArg = Undefined
    /\ translated = NoOutcome
    /\ feed = <<>>

\* the next message of the stream goes through processAgentMessage and its
\* activities are collected; a TypeError ends the consumption
Translate ==
    /\ inbox # <<>>
    /\ LET out == processAgentMessage(Head(inbox), cwdArg)
       IN  /\ translated' = [called |-> TRUE, message |-> Head(inbox),
                          seen |-> Append(translated.seen, Head(inbox)),
                          result |-> out]
           /\ feed' = feed \o out.activities
           /\ inbox' = IF out.raised THEN <<>> ELSE Tail(inbox)
    /\ UNCHANGED <<cwdArg, callVars, wtVars, logVars, restVars>>

MaxAppends == 5     \* appends to the activity log of one run
ActivityCap == 3    \* entries the activity log of a run retains
Entries == {"e1", "e2", "e3"}

LogIdle ==
    /\ activityLog = <<>>
    /\ appended = <<>>

\* a variant that drops the new entry when the log is full
addActivity_dropsNewest(log, entry) ==
    IF Len(log) >= ActivityCap THEN log ELSE Append(log, entry)

\* the registry appends the entry and evicts from the front beyond the cap
addActivity(log, entry) ==
    LET pushed == Append(log, entry)
    IN  IF Len(pushed) > ActivityCap
        THEN SubSeq(pushed, Len(pushed) - ActivityCap + 1, Len(pushed))
        ELSE pushed

AddActivity(entry) ==
    /\ Len(appended) < MaxAppends
    /\ activityLog' = addActivity(activityLog, entry)
    /\ appended' = Append(appended, entry)
    /\ UNCHANGED <<callVars, wtVars, streamVars, restVars>>

(***************************************************************************)
(* The run registry and the dashboard server                               *)
(*                                                                         *)
(* registry.status[id] is "none" for a run not yet added and "running"     *)
(* for one in flight; a terminated run is in registry.history, the oldest  *)
(* first, with its terminal status.                                        *)
(***************************************************************************)
MaxRuns == 3        \* runs the registry is given
HistoryCap == 2     \* completed runs the history retains
MaxToggles == 3     \* pause toggles
MaxQueue == 1       \* queued issues

RunIds == 1..MaxRuns
TerminalStatuses == {"completed", "failed", "timed_out"}

NewRegistry ==
    [status |-> [id \in RunIds |-> "none"], history |-> <<>>, paused |-> FALSE,
     queue |-> 0]

NothingObserved == [terminated |-> <<>>, toggles |-> 0]

\* the last entries of a sequence, at most cap of them
Latest(seq, cap) ==
    IF Len(seq) <= cap THEN seq ELSE SubSeq(seq, Len(seq) - cap + 1, Len(seq))

\* a run is created when an agent is launched
addAgent(reg, id) ==
    IF reg.status[id] = "none" THEN [reg EXCEPT !.status[id] = "running"] ELSE reg

\* a variant that terminates a run whenever a terminal message comes
completeAgent_again(reg, id, status) ==
    [reg EXCEPT !.status[id] = "done",
                !.history = Latest(Append(@, [id |-> id, status |-> status]),
                                   HistoryCap)]

\* a terminal message ends a running run and moves it to the history;
\* for any other run it is ignored
completeAgent(reg, id, status) ==
    IF reg.status[id] # "running" THEN reg
    ELSE [reg EXCEPT !.status[id] = "done",
                     !.history = Latest(Append(@, [id |-> id, status |-> status]),
                                        HistoryCap)]

\* a variant that only ever sets the flag
togglePause_sets(reg) == [reg EXCEPT !.paused = TRUE]

togglePause(reg) == [reg EXCEPT !.paused = ~@]

isPaused(reg) == reg.paused

\* the status snapshot read consumers get
getSnapshot(reg) ==
    [paused |-> reg.paused,
     agents |-> {id \in RunIds : reg.status[id] = "running"},
     history |-> reg.history,
     queue |-> reg.queue]

AddAgent(id) ==
    /\ registry.status[id] = "none"
    /\ registry' = addAgent(registry, id)
    /\ UNCHANGED <<observed, http, explain, pager, callVars, wtVars, streamVars,
                   logVars>>

\* a terminal message (success, error or timeout) of run id is observed
TerminalMessage(id, status) ==
    /\ registry.status[id] # "none"
    /\ registry' = completeAgent(registry, id, status)
    /\ observed' = IF \E i \in 1..Len(observed.terminated) :
                          observed.terminated[i].id = id
                   THEN observed
                   ELSE [observed EXCEPT
                           !.terminated = Append(@, [id |-> id, status |-> status])]
    /\ UNCHANGED <<http, explain, pager, callVars, wtVars, streamVars, logVars>>

UpdateQueue(n) ==
    /\ registry.queue # n
    /\ registry' = [registry EXCEPT !.queue = n]
    /\ UNCHANGED <<observed, http, explain, pager, callVars, wtVars, streamVars,
                   logVars>>

\* state.togglePause() called directly
TogglePause ==
    /\ observed.toggles < MaxToggles
    /\ registry' = togglePause(registry)
    /\ observed' = [observed EXCEPT !.toggles = @ + 1]
    /\ UNCHANGED <<http, explain, pager, callVars, wtVars, streamVars, logVars>>

\* server.test.ts l.60
TOKEN == "test-secret-token"
Credentials == {NULL, TOKEN, "wrong-token"}

ReadPaths == {"/", "/api/status", "/partials/agents", "/partials/history"}

Requests ==
    [method : {"GET"}, path : ReadPaths, cookie : Credentials,
     bearer : Credentials, form : {NULL}]
    \cup [method : {"POST"}, path : {"/api/pause"}, cookie : Credentials,
          bearer : Credentials, form : {NULL}]
    \cup [method : {"POST"}, path : {"/auth/login"}, cookie : {NULL},
          bearer : {NULL}, form : {TOKEN, "wrong-token"}]

NoRequest ==
    [method |-> "none", path |-> "", cookie |-> NULL, bearer |-> NULL, form |-> NULL]

Response(status, body, data) ==
    [status |-> status, body |-> body, data |-> data]
NoData == [paused |-> FALSE, agents |-> {}, history |-> <<>>, queue |-> 0]
NoResponse == Response(0, "", NoData)

\* a variant that lets every request through
authorized_open(authToken, req) == TRUE

\* the request passes when no token is configured, or carries it as the
\* session cookie or as the Bearer token
authorized(authToken, req) ==
    \/ authToken = NULL
    \/ req.cookie = authToken
    \/ req.bearer = authToken

\* the app of createApp(state, {authToken}) serves one request: the
\* response and the registry after it
serve(reg, authToken, req) ==
    CASE req.path = "/auth/login" ->
            [registry |-> reg,
             response |-> IF req.form = authToken
                          THEN Response(302, "Set-Cookie", NoData)
                          ELSE Response(401, "Invalid token", NoData)]
      [] req.path # "/auth/login" /\ ~authorized(authToken, req) ->
            [registry |-> reg,
             response |-> Response(401, IF req.path = "/" THEN "Dashboard Token"
                                        ELSE "Unauthorized", NoData)]
      [] req.path = "/api/pause" /\ authorized(authToken, req) ->
            [registry |-> togglePause(reg),
             response |-> Response(200, "paused",
                                   [NoData EXCEPT !.paused = isPaused(togglePause(reg))])]
      [] OTHER ->
            [registry |-> reg,
             response |-> Response(200, req.path, getSnapshot(reg))]

ServerIdle(authToken) ==
    http = [authToken |-> authToken, request |-> NoRequest, response |-> NoResponse]

RegistryIdle ==
    /\ registry = NewRegistry
    /\ observed = NothingObserved
    /\ ServerIdle(NULL)

HandleRequest(req) ==
    LET served == serve(registry, http.authToken, req)
    IN  /\ req.path = "/auth/login" => http.authToken # NULL
        /\ req.path = "/api/pause" => observed.toggles < MaxToggles
        /\ registry' = served.registry
        /\ http' = [http EXCEPT !.request = req, !.response = served.response]
        /\ observed' =
              IF req.path = "/api/pause" /\ served.response.status = 200
              THEN [observed EXCEPT !.toggles = @ + 1]
              ELSE observed
        /\ UNCHANGED <<explain, pager, callVars, wtVars, streamVars, logVars>>

(***************************************************************************)
(* explain.ts: one agent run and the report on it                          *)
(***************************************************************************)
NoReport == [done |-> FALSE, warned |-> FALSE, exit |-> 0, printed |-> NULL,
             cost |-> FALSE, ok |-> FALSE]

StartedRun ==
    [st |-> "running", timedOut |-> FALSE, inactivityTimedOut |-> FALSE,
     error |-> NULL, result |-> NULL, costUsd |-> 0]

ExplainIdle == explain = [run |-> [StartedRun EXCEPT !.st = "idle"], report |-> NoReport]

ResultTexts == {"", "report", "partial report"}

\* a variant that takes the failure exit whenever an error is set
explainReport_failsOnError(run) ==
    IF run.error # NULL
    THEN [NoReport EXCEPT !.done = TRUE, !.warned = run.timedOut, !.exit = 1]
    ELSE [done |-> TRUE, warned |-> run.timedOut, exit |-> 0,
          printed |-> IF run.result \notin {NULL, ""} THEN run.result ELSE NULL,
          cost |-> run.costUsd # 0, ok |-> TRUE]

\* lines 151-173: what the script does with the ClaudeResult
explainReport(run) ==
    IF run.error \notin {NULL, ""} /\ ~run.timedOut
    THEN [NoReport EXCEPT !.done = TRUE, !.warned = run.timedOut, !.exit = 1]
    ELSE [done |-> TRUE, warned |-> run.timedOut, exit |-> 0,
          printed |-> IF run.result \notin {NULL, ""} THEN run.result ELSE NULL,
          cost |-> run.costUsd # 0, ok |-> TRUE]

KeepRest == UNCHANGED <<registry, observed, http, pager, callVars, wtVars,
                        streamVars, logVars>>

\* the agent's result message is buffered
AgentResult(text, cost) ==
    /\ explain.run.st = "running"
    /\ explain.run.result = NULL
    /\ explain' = [explain EXCEPT !.run.result = text, !.run.costUsd = cost]
    /\ KeepRest

\* the agent reports an error
AgentError ==
    /\ explain.run.st = "running"
    /\ explain.run.error = NULL
    /\ explain' = [explain EXCEPT !.run.error = "boom"]
    /\ KeepRest

\* the stream ends and runClaude resolves
StreamEnds ==
    /\ explain.run.st = "running"
    /\ explain' = [explain EXCEPT !.run.st = "done"]
    /\ KeepRest

\* the absolute or the inactivity timer cancels the run: runClaude resolves
\* flagged timed out, with what was buffered, with or without an error text
Timeout(inactivity, withError) ==
    /\ explain.run.st = "running"
    /\ explain' = [explain EXCEPT
                      !.run.st = "done",
                      !.run.timedOut = TRUE,
                      !.run.inactivityTimedOut = inactivity,
                      !.run.error = IF withError THEN "Timed out" ELSE @]
    /\ KeepRest

\* lines 139-173 after the await
ExplainReport ==
    /\ explain.run.st = "done"
    /\ ~explain.report.done
    /\ explain' = [explain EXCEPT !.report = explainReport(explain.run)]
    /\ KeepRest

(***************************************************************************)
(* countIssuesInState (linear.ts) on a scripted rawRequest                 *)
(***************************************************************************)
MAX_PAGES == 100
MaxPageScript == 3  \* scripted responses of rawRequest

Page(nodes, hasNextPage, endCursor) ==
    [nodes |-> nodes, hasNextPage |-> hasNextPage, endCursor |-> endCursor]

ScriptPages ==
    {Page(5, TRUE, "cursor-1"), Page(3, TRUE, "cursor-2"), Page(2, FALSE, NULL)}

PageOutcomes ==
    {Resolved(pg) : pg \in ScriptPages}
    \cup {Rejected(Err(503, FALSE)), Rejected(Err(404, FALSE))}

\* l.113-115: a server on which every page has one node and a next page
EndlessPage == Page(1, TRUE, "cursor-n")
LastPage == Page(0, FALSE, NULL)

PagerOff ==
    [st |-> "idle", responses |-> <<>>, endless |-> FALSE, calls |-> 0,
     pages |-> 0, total |-> 0, cursor |-> NULL, asked |-> <<>>,
     served |-> <<>>, retry |-> IdleRetry, warned |-> FALSE]

PagerIdle == pager = PagerOff

\* l.40-44: the k-th invocation of rawRequest
rawRequest(pg, k) ==
    IF k <= Len(pg.responses) THEN pg.responses[k]
    ELSE IF pg.endless THEN Resolved(EndlessPage)
    ELSE Resolved(LastPage)

\* a variant of the page limit that never stops
atPageLimit_never(pages) == FALSE

atPageLimit(pages) == pages >= MAX_PAGES

\* one invocation of rawRequest under withRetry and what the loop does
\* with a fetched page
fetchPage(pg) ==
    LET outcome == rawRequest(pg, pg.calls + 1)
        r == withRetryAttempt(pg.retry, outcome, "countIssuesInState")
        called == [pg EXCEPT !.calls = @ + 1, !.asked = Append(@, pg.cursor),
                             !.served = Append(@, outcome), !.retry = r]
        page == outcome.value
        counted == [called EXCEPT !.total = @ + page.nodes, !.pages = @ + 1]
    IN  CASE r.st = "failed" -> [called EXCEPT !.st = "failed"]
          [] r.st = "backoff" -> called
          [] r.st = "ok" /\ ~page.hasNextPage -> [counted EXCEPT !.st = "done"]
          [] r.st = "ok" /\ page.hasNextPage /\ atPageLimit(counted.pages) ->
                [counted EXCEPT !.st = "done", !.warned = TRUE]
          [] OTHER -> [counted EXCEPT !.cursor = page.endCursor,
                                      !.retry = StartRetry]

KeepOthers == UNCHANGED <<registry, observed, http, explain, callVars, wtVars,
                          streamVars, logVars>>

FetchPage ==
    /\ pager.st = "fetching"
    /\ pager.retry.st = "calling"
    /\ pager' = fetchPage(pager)
    /\ KeepOthers

PageBackoff ==
    /\ pager.st = "fetching"
    /\ pager.retry.st = "backoff"
    /\ pager' = [pager EXCEPT !.retry = withRetryWake(@)]
    /\ KeepOthers

RestIdle == RegistryIdle /\ ExplainIdle /\ PagerIdle

(***************************************************************************)
(* Specifications                                                          *)
(***************************************************************************)
RetryDomain == Endpoints \cup {"op"}

InitWorktreesIdle ==
    /\ repo = EmptyRepo
    /\ wtCalls = <<NoCall, NoCall>>
    /\ held = [r \in Runs |-> {}]
    /\ dirOwner = [n \in Names |-> NULL]

\* a getPRStatus call from its start
InitCall ==
    /\ retry = [e \in RetryDomain |-> IF e = "pr" THEN StartRetry ELSE IdleRetry]
    /\ script = <<>>
    /\ pc = "pr"
    /\ result = NoResult
    /\ thrown = NoError
    /\ settledResult = NoResult
    /\ InitWorktreesIdle
    /\ StreamIdle
    /\ LogIdle
    /\ RestIdle

NextCall ==
    \/ \E e \in Endpoints : Attempt(e)
    \/ \E e \in Endpoints : Backoff(e)
    \/ ContinueAfterPR
    \/ Finish

SpecCall == InitCall /\ [][NextCall]_vars

OkRetry(v) == [StartRetry EXCEPT !.st = "ok", !.attempts = 1, !.value = v]

\* getPRStatus on every response triple within the bounds, each fetched at
\* the first attempt
InitCI ==
    /\ \E p \in PRs :
          IF p.merged
          THEN /\ pc = "pr"
               /\ retry = [e \in RetryDomain |->
                             IF e = "pr" THEN OkRetry(p) ELSE IdleRetry]
          ELSE /\ pc = "ci"
               /\ \E sr \in StatusResults(MaxStatuses), cr \in ChecksResults(MaxChecks) :
                     retry = [e \in RetryDomain |->
                                CASE e = "pr" -> OkRetry(p)
                                  [] e = "status" -> OkRetry(sr)
                                  [] e = "checks" -> OkRetry(cr)
                                  [] OTHER -> IdleRetry]
    /\ script = <<>>
    /\ result = NoResult
    /\ thrown = NoError
    /\ settledResult = NoResult
    /\ InitWorktreesIdle
    /\ StreamIdle
    /\ LogIdle
    /\ RestIdle

NextCI ==
    \/ ContinueAfterPR
    \/ Finish
    \/ FinishSettled

SpecCI == InitCI /\ [][NextCI]_vars

\* one withRetry call on a scripted operation
Scripts == {s \in SeqsUpTo(Outcomes(Values), MaxScript) : Len(s) = MaxScript}

InitRetry ==
    /\ script \in Scripts
    /\ retry = [e \in RetryDomain |-> IF e = "op" THEN StartRetry ELSE IdleRetry]
    /\ pc = "idle"
    /\ result = NoResult
    /\ thrown = NoError
    /\ settledResult = NoResult
    /\ InitWorktreesIdle
    /\ StreamIdle
    /\ LogIdle
    /\ RestIdle

NextRetry ==
    \/ ScriptedAttempt
    \/ BackoffOp

SpecRetry == InitRetry /\ [][NextRetry]_vars

\* the worktree manager on one repository, called by one run
Operator == "r1"

InitCallIdle ==
    /\ retry = [e \in RetryDomain |-> IdleRetry]
    /\ script = <<>>
    /\ pc = "idle"
    /\ result = NoResult
    /\ thrown = NoError
    /\ settledResult = NoResult

InitWT == InitCallIdle /\ InitWorktreesIdle /\ StreamIdle /\ LogIdle /\ RestIdle

NextWT ==
    \/ \E n \in Names, b \in FromBranches \cup {NULL} :
          CreateWorktree(Operator, n, b)
    \/ \E n \in Names, k \in BOOLEAN : RemoveWorktree(Operator, n, k)
    \/ \E n \in Names : DirectoryDeleted(n)
    \/ \E n \in Names : DirectoryLeftBehind(n)
    \/ \E n \in Names : BranchLeftBehind(n)

SpecWT == InitWT /\ [][NextWT]_vars

\* concurrent runs on one repository: each creates worktrees and removes
\* the ones it holds; the calls are synchronous, so they interleave whole
NextRuns ==
    \/ \E r \in Runs, n \in Names, b \in FromBranches \cup {NULL} :
          CreateWorktree(r, n, b)
    \/ \E r \in Runs, k \in BOOLEAN : \E n \in held[r] : RemoveWorktree(r, n, k)

SpecRuns == InitWT /\ [][NextRuns]_vars

\* processAgentMessage on every message within the bounds
InitMsg ==
    /\ InitCallIdle
    /\ InitWorktreesIdle
    /\ LogIdle
    /\ RestIdle
    /\ inbox \in {<<m>> : m \in Messages}
    /\ cwdArg \in Cwds
    /\ translated = NoOutcome
    /\ feed = <<>>

SpecMsg == InitMsg /\ [][Translate]_vars

\* the messages agent streams are made of
StreamMessages ==
    {Obj([type |-> Str("system"), subtype |-> Str("init"), session_id |-> Str("s1")]),
     Assistant(Arr(<<ToolUse(Str("Read"),
                             Obj([file_path |-> Str("/w/src/app.ts")]))>>),
               JsNull),
     Assistant(Arr(<<TextBlock(Str("hello"))>>), JsNull),
     Obj([type |-> Str("result"), subtype |-> Str("success"),
          result |-> Str("done")]),
     Obj([type |-> Str("result"), subtype |-> Str("error_max_turns")]),
     Obj([type |-> Str("user")])}

\* a consumer fed every stream within the bounds
InitStream ==
    /\ InitCallIdle
    /\ InitWorktreesIdle
    /\ LogIdle
    /\ RestIdle
    /\ inbox \in SeqsUpTo(StreamMessages, MaxStream)
    /\ cwdArg \in {Undefined, Str(Workdir)}
    /\ translated = NoOutcome
    /\ feed = <<>>

SpecStream == InitStream /\ [][Translate]_vars

\* appends to the activity log of one run
InitLog == InitCallIdle /\ InitWorktreesIdle /\ StreamIdle /\ LogIdle /\ RestIdle

NextLog == \E e \in Entries : AddActivity(e)

SpecLog == InitLog /\ [][NextLog]_vars

\* the registry under the runs' terminal messages
InitRegistry == InitCallIdle /\ InitWorktreesIdle /\ StreamIdle /\ LogIdle /\ RestIdle

NextRegistry ==
    \/ \E id \in RunIds : AddAgent(id)
    \/ \E id \in RunIds, status \in TerminalStatuses : TerminalMessage(id, status)
    \/ \E n \in 0..MaxQueue : UpdateQueue(n)
    \/ TogglePause

SpecRegistry == InitRegistry /\ [][NextRegistry]_vars

\* the dashboard server over the registry, with and without an access token
InitServer ==
    /\ InitCallIdle
    /\ InitWorktreesIdle
    /\ StreamIdle
    /\ LogIdle
    /\ registry = NewRegistry
    /\ observed = NothingObserved
    /\ \E authToken \in {NULL, TOKEN} : ServerIdle(authToken)
    /\ ExplainIdle
    /\ PagerIdle

\* the run the dashboard shows
Shown == CHOOSE id \in RunIds : \A other \in RunIds : id <= other

NextServer ==
    \/ \E req \in Requests : HandleRequest(req)
    \/ AddAgent(Shown)
    \/ TerminalMessage(Shown, "completed")
    \/ \E n \in 0..MaxQueue : UpdateQueue(n)

SpecServer == InitServer /\ [][NextServer]_vars

\* one explain run
CostsUsd == {0, 1}

InitExplain ==
    /\ InitCallIdle
    /\ InitWorktreesIdle
    /\ StreamIdle
    /\ LogIdle
    /\ RegistryIdle
    /\ explain = [run |-> StartedRun, report |-> NoReport]
    /\ PagerIdle

NextExplain ==
    \/ \E text \in ResultTexts, cost \in CostsUsd : AgentResult(text, cost)
    \/ AgentError
    \/ StreamEnds
    \/ \E inactivity \in BOOLEAN, withError \in BOOLEAN : Timeout(inactivity, withError)
    \/ ExplainReport

SpecExplain == InitExplain /\ [][NextExplain]_vars

\* countIssuesInState on every script of responses within the bounds, and
\* on a server that never runs out of pages
PageScripts == SeqsUpTo(PageOutcomes, MaxPageScript)

InitPager ==
    /\ InitCallIdle
    /\ InitWorktreesIdle
    /\ StreamIdle
    /\ LogIdle
    /\ RegistryIdle
    /\ ExplainIdle
    /\ \E responses \in PageScripts, endless \in BOOLEAN :
          /\ endless => Len(responses) <= 1
          /\ pager = [PagerOff EXCEPT !.st = "fetching", !.responses = responses,
                                      !.endless = endless, !.retry = StartRetry]

NextPager ==
    \/ FetchPage
    \/ PageBackoff

SpecPager == InitPager /\ [][NextPager]_vars

(***************************************************************************)
(* Properties of getPRStatus                                               *)
(***************************************************************************)
PrResponse == retry["pr"].value
StatusResponse == retry["status"].value
CheckRuns == retry["checks"].value.check_runs

UnmergedDone == pc = "done" /\ ~PrResponse.merged

FailPresent ==
    \/ StatusResponse.state = "failure"
    \/ \E i \in 1..Len(CheckRuns) : CheckRuns[i].conclusion \in {"failure", "timed_out"}

SourcesTerminal ==
    /\ \A i \in 1..Len(StatusResponse.statuses) :
          StatusResponse.statuses[i].state # "pending"
    /\ \A i \in 1..Len(CheckRuns) : CheckRuns[i].status = "completed"

RECURSIVE SplitLines(_)
\* the lines of a text: its parts between the "\n" separators
SplitLines(text) ==
    IF \A i \in 1..Len(text) : text[i] # "\n" THEN <<text>>
    ELSE LET k == CHOOSE i \in 1..Len(text) :
                     text[i] = "\n" /\ \A j \in 1..(i - 1) : text[j] # "\n"
         IN  <<SubSeq(text, 1, k - 1)>> \o SplitLines(SubSeq(text, k + 1, Len(text)))

Occurrences(lines, line) == Cardinality({k \in 1..Len(lines) : lines[k] = line})

C2_FailureOnlyWhenSettled ==
    (UnmergedDone /\ result.ciStatus = "failure") => SourcesTerminal

\* C3: for an unmerged PR with no failure or timeout present the verdict is
\* success exactly when the legacy aggregate is success and every check run
\* has completed with conclusion success or skipped, and pending otherwise.
C3_SuccessIff ==
    (UnmergedDone /\ ~FailPresent) =>
        LET allPass ==
                /\ StatusResponse.state = "success"
                /\ \A i \in 1..Len(CheckRuns) :
                      /\ CheckRuns[i].status = "completed"
                      /\ CheckRuns[i].conclusion \in {"success", "skipped"}
        IN  result.ciStatus = IF allPass THEN "success" ELSE "pending"

C3_Witness ==
    /\ UnmergedDone
    /\ StatusResponse.state = "pending"
    /\ Len(CheckRuns) >= 2
    /\ \A i \in 1..Len(CheckRuns) : CheckRuns[i].status = "in_progress"
    /\ result.ciStatus = "pending"

\* C4: when the fetched PR is merged, getPRStatus resolves to merged with
\* ciStatus success and empty ciDetails, and no request is made to the
\* combined-status or the check-runs endpoint.
C4_MergedShortCircuit ==
    (retry["pr"].st = "ok" /\ PrResponse.merged) =>
        /\ retry["status"].attempts = 0 /\ retry["status"].st = "idle"
        /\ retry["checks"].attempts = 0 /\ retry["checks"].st = "idle"
        /\ pc \in {"pr", "done"}
        /\ pc = "done" =>
              /\ result.merged
              /\ result.ciStatus = "success"
              /\ result.ciDetails = <<>>

C4_Witness ==
    /\ pc = "done"
    /\ PrResponse.merged
    /\ retry["pr"].attempts = 2
    /\ result.merged

\* C5: a failure verdict never has empty ciDetails; when no failing entry
\* was captured, ciDetails is the generic fallback message.
C5_DetailsNonEmpty ==
    (pc = "done" /\ result.ciStatus = "failure") =>
        /\ Len(result.ciDetails) > 0
        /\ \A i \in 1..Len(result.ciDetails) : result.ciDetails[i] # ""
        /\ ( /\ \A i \in 1..Len(StatusResponse.statuses) :
                   StatusResponse.statuses[i].state \notin {"failure", "error"}
             /\ \A i \in 1..Len(CheckRuns) :
                   CheckRuns[i].conclusion \notin {"failure", "timed_out"} )
           => result.ciDetails = <<"CI checks failed (see PR for details)">>

C5_Witness ==
    /\ UnmergedDone
    /\ result.ciStatus = "failure"
    /\ result.ciDetails = <<"CI checks failed (see PR for details)">>

Op == retry["op"]

\* the failures the retry contract names transient
TransientErrors == {Err(429, FALSE), Err(503, FALSE), Err(0, TRUE)}
FailsTransiently(k) == ~script[k].ok /\ script[k].error \in TransientErrors
FailsFatally(k) == ~script[k].ok /\ script[k].error \notin TransientErrors

\* C7: an operation that fails twice with a transient error and then
\* succeeds makes withRetry return the success value after exactly 3
\* invocations.
C7_TwoFailuresThenSuccess ==
    (FailsTransiently(1) /\ FailsTransiently(2) /\ script[3].ok) =>
        /\ Op.attempts <= 3
        /\ Op.st # "failed"
        /\ Op.st = "ok" => (Op.attempts = 3 /\ Op.value = script[3].value)
        /\ Op.attempts = 3 => Op.st = "ok"

C7_Witness ==
    /\ script[1] = Rejected(Err(503, FALSE))
    /\ script[2] = Rejected(Err(503, FALSE))
    /\ script[3].ok
    /\ Op.st = "ok"
    /\ Op.attempts = 3
    /\ Op.value = script[3].value

\* C8: only transient failures are retried: every invocation but the last
\* failed transiently, and a fatal failure ends the call at that invocation
\* with that error, with no backoff wait after it (a fatal first failure:
\* exactly one invocation, no wait).
C8_OnlyTransientRetried ==
    /\ \A k \in 1..Op.attempts :
          /\ k < Op.attempts => FailsTransiently(k)
          /\ FailsFatally(k) =>
                /\ Op.attempts = k
                /\ Op.st = "failed"
                /\ Op.error = script[k].error
                /\ Op.waits = k - 1
    /\ Op.waits <= Op.attempts
    /\ Op.waits = Op.attempts => Op.st = "calling"

C8_Witness ==
    /\ script[1] = Rejected(Err(404, FALSE))
    /\ Op.st = "failed"
    /\ Op.attempts = 1
    /\ Op.waits = 0

\* C9: withRetry never invokes the operation more than 3 times; when 3
\* attempts fail transiently it fails with the error of the last attempt,
\* annotated with the label.
C9_AttemptCeiling ==
    /\ Op.attempts <= 3
    /\ (FailsTransiently(1) /\ FailsTransiently(2) /\ FailsTransiently(3)
        /\ Op.attempts = 3) =>
            /\ Op.st = "failed"
            /\ Op.error = [script[3].error EXCEPT !.label = "op"]

C9_Witness ==
    /\ script[1] = Rejected(Err(429, FALSE))
    /\ script[2] = Rejected(Err(0, TRUE))
    /\ script[3] = Rejected(Err(503, FALSE))
    /\ Op.st = "failed"
    /\ Op.attempts = 3
    /\ Op.error.status = 503

(***************************************************************************)
(* Properties of the worktree manager                                      *)
(***************************************************************************)
FreshCreate(call, name) ==
    call.op = "create" /\ call.name = name /\ call.fromBranch = NULL

\* C10: a second createWorktree(root, name) right after a first one that
\* created the worktree succeeds, and leaves one worktree directory at
\* <root>/.claude/worktrees/<name> with the branch worktree-<name> checked
\* out in it and in no other worktree.
C10_CreateTwice ==
    \A name \in Names :
        (FreshCreate(wtCalls[1], name) /\ FreshCreate(wtCalls[2], name)
         /\ ~wtCalls[2].threw) =>
            /\ ~wtCalls[1].threw
            /\ repo.wt[name] = [dir |-> "linked", meta |-> TRUE,
                                head |-> WorktreeBranch(name)]
            /\ WorktreeBranch(name) \in repo.local
            /\ \A other \in Names \ {name} :
                  repo.wt[other].head # WorktreeBranch(name)

C10_Witness ==
    /\ FreshCreate(wtCalls[1], "a")
    /\ FreshCreate(wtCalls[2], "a")
    /\ ~wtCalls[2].threw
    /\ ~wtCalls[1].threw
    /\ repo.wt["a"].dir = "linked"
    /\ repo.wt["b"].dir = "linked"

\* C11: createWorktree in fresh-branch mode succeeds from every state an
\* interrupted earlier run can leave for the name (a leftover directory,
\* dangling worktree metadata, a leftover branch worktree-<name>, in any
\* combination): it returns the path and does not throw, also when the
\* removal of the stale directory did not delete it.
C11_SelfHealing ==
    \A name \in Names :
        FreshCreate(wtCalls[1], name) =>
            /\ ~wtCalls[1].threw
            /\ wtCalls[1].path = worktreePath(ProjectRoot, name)

\* the fresh-branch createWorktree throws only over a directory that the
\* stale removal could not delete
ThrowsOnlyOverLeftoverDirectory ==
    \A name \in Names :
        (FreshCreate(wtCalls[1], name) /\ wtCalls[1].threw) =>
            /\ repo.wt[name] = [dir |-> "plain", meta |-> FALSE, head |-> NULL]
            /\ "worktree remove" \in {wtCalls[1].steps[i] :
                                         i \in 1..Len(wtCalls[1].steps)}

RemoveCall(call) == call.op = "remove"

Dangling(r) == \E n \in Names : r.wt[n].meta /\ r.wt[n].dir # "linked"

\* C12: removeWorktree never throws, whatever its git commands answer; when
\* `git worktree remove` fails it still prunes (no dangling metadata is
\* left) and, unless keepBranch, still runs `git branch -D worktree-<name>`
\* (the branch is gone unless a worktree has it checked out).
C12_RemoveNeverThrows ==
    RemoveCall(wtCalls[1]) =>
        LET call == wtCalls[1]
            branch == WorktreeBranch(call.name)
        IN  /\ ~call.threw
            /\ call.steps = <<"worktree remove", "worktree prune">>
                             \o (IF call.keepBranch THEN <<>> ELSE <<"branch -D">>)
            /\ ~Dangling(repo)
            /\ (~call.keepBranch /\ ~CheckedOut(repo, branch)) =>
                   branch \notin repo.local

\* `git worktree remove` failed on a path git holds no worktree for, and
\* the leftover branch was deleted all the same
C12_Witness ==
    /\ RemoveCall(wtCalls[1])
    /\ wtCalls[1].name = "a"
    /\ ~wtCalls[1].keepBranch
    /\ "worktree" \in wtCalls[1].failed
    /\ wtCalls[2].op = "branch"
    /\ wtCalls[2].name = "a"
    /\ WorktreeBranch("a") \notin repo.local

ExistingCreate(call) == call.op = "create" /\ call.fromBranch # NULL

\* C13: removeWorktree with keepBranch deletes no branch; createWorktree
\* with fromBranch deletes no branch, also when it removes a stale
\* directory; and the branch worktree-<name> disappears only in a
\* removeWorktree of <name> without keepBranch or in a fresh-branch
\* createWorktree of <name>.
C13_BranchPreservation ==
    [][LET call == wtCalls'[1]
       IN  /\ ((RemoveCall(call) /\ call.keepBranch) \/ ExistingCreate(call)) =>
                  repo.local \subseteq repo'.local
           /\ \A n \in Names :
                  (WorktreeBranch(n) \in repo.local
                   /\ WorktreeBranch(n) \notin repo'.local) =>
                      /\ call.name = n
                      /\ \/ RemoveCall(call) /\ ~call.keepBranch
                         \/ FreshCreate(call, n)]_vars

\* a createWorktree with fromBranch removed the stale directory of a
\* fresh-branch worktree and the branch worktree-a is still there
C13_Witness ==
    /\ ExistingCreate(wtCalls[1])
    /\ wtCalls[1].name = "a"
    /\ ~wtCalls[1].threw
    /\ wtCalls[1].steps = <<"worktree prune", "worktree remove", "worktree prune",
                            "fetch", "worktree add">>
    /\ FreshCreate(wtCalls[2], "a")
    /\ ~wtCalls[2].threw
    /\ WorktreeBranch("a") \in repo.local
    /\ repo.wt["a"].head \in FromBranches

Raised(call) ==
    /\ call.threw
    /\ call.path = <<>>
    /\ call.error = createError(call.name, "git")

\* C14: createWorktree with fromBranch throws an error that names the
\* worktree, and returns no path, whenever the fetch of fromBranch failed
\* or the checkout (`git worktree add <path> <fromBranch>`) failed.
C14_FetchOrCheckoutFailureThrows ==
    (ExistingCreate(wtCalls[1])
     /\ wtCalls[1].failed \cap {"fetch", "worktree add"} # {}) =>
        Raised(wtCalls[1])

\* the half of it that the code keeps: a failed checkout throws
CheckoutFailureThrows ==
    (ExistingCreate(wtCalls[1]) /\ "worktree add" \in wtCalls[1].failed) =>
        Raised(wtCalls[1])

\* C15: in every interleaving of createWorktree and removeWorktree calls of
\* concurrent runs, no two runs hold the same worktree name at once, and
\* the directory of a name a run holds is the one that run created, until
\* the run itself calls removeWorktree.
C15_Exclusive ==
    /\ \A r1, r2 \in Runs : r1 # r2 => held[r1] \cap held[r2] = {}
    /\ \A r \in Runs : \A n \in held[r] : dirOwner[n] = r

(***************************************************************************)
(* Properties of the agent message translator                              *)
(***************************************************************************)
Message == translated.message
Out == translated.result

IsType(m, type) == ~Nullish(m) /\ Get(m, "type") = Str(type)

Recognized(m) ==
    \/ IsType(m, "system")
       /\ Get(m, "subtype") \in {Str("init"), Str("task_started"),
                                 Str("task_notification")}
    \/ IsType(m, "assistant") /\ Truthy(Get(m, "message"))
    \/ IsType(m, "result")

TerminalKeys == {"sessionId", "successResult", "errorMessage"}

\* C16: processAgentMessage raises for no message, be it null or no object,
\* a result without errors and subtype, or an assistant message whose
\* content blocks have malformed fields; a message of no recognized shape
\* gives no activities and none of sessionId, successResult, errorMessage.
C16_NeverRaises ==
    translated.called =>
        /\ ~Out.raised
        /\ ~Recognized(Message) =>
               /\ Out.activities = <<>>
               /\ Out.keys \cap TerminalKeys = {}

\* what the translator does raise on: null and undefined, an error result
\* without a string to show, and an assistant message with a bad block
RaisesOnlyOnMalformed ==
    (translated.called /\ Out.raised) =>
        \/ Nullish(Message)
        \/ IsType(Message, "result")
           /\ \/ Get(Message, "subtype").t # "string"
              \/ Get(Message, "errors").t = "string"
        \/ IsType(Message, "assistant")
           /\ \E i \in 1..Len(Get(Get(Message, "message"), "content").v) :
                 LET block == Get(Get(Message, "message"), "content").v[i]
                 IN  \/ Nullish(block)
                     \/ Get(block, "type") = Str("text")
                        /\ Get(block, "text").t \notin {"string", "array"}
                     \/ Get(block, "type") = Str("tool_use")
                        /\ Get(block, "name").t # "string"

\* a message of no recognized shape that is an object or a primitive gives
\* an empty result
UnrecognizedIsEmpty ==
    (translated.called /\ ~Nullish(Message) /\ ~Recognized(Message)) =>
        Out = Only(<<>>)

endsWith(s, suffix) ==
    Len(suffix) <= Len(s) /\ SubSeq(s, Len(s) - Len(suffix) + 1, Len(s)) = suffix

InitMessage ==
    Obj([type |-> Str("system"), subtype |-> Str("init"), session_id |-> Str("s1")])

ReadMessage ==
    Assistant(Arr(<<ToolUse(Str("Read"), Obj([file_path |-> Str("/w/src/app.ts")]))>>),
              JsNull)

DoneMessage ==
    Obj([type |-> Str("result"), subtype |-> Str("success"), result |-> Str("done")])

EndToEndStream == <<InitMessage, ReadMessage, DoneMessage>>

\* C17: the stream system/init, assistant with one tool_use block of the
\* Read tool on <workdir>/src/app.ts, result/success with result "done",
\* translated in arrival order with the workdir as cwd, gives exactly three
\* activities, after each message the ones so far: status "Agent started",
\* tool_use with a summary ending in ": src/app.ts", result "Agent
\* completed successfully"; and successResult.result is "done".
C17_EndToEnd ==
    \A k \in 1..3 :
        (translated.seen = SubSeq(EndToEndStream, 1, k)
         /\ cwdArg = Str(Workdir)) =>
            /\ ~Out.raised
            /\ Len(feed) = k
            /\ feed[1].type = "status" /\ feed[1].summary = Str("Agent started")
            /\ k >= 2 => /\ feed[2].type = "tool_use"
                         /\ feed[2].summary.t = "string"
                         /\ endsWith(feed[2].summary.v, ": src/app.ts")
            /\ k = 3 => /\ feed[3].type = "result"
                        /\ feed[3].summary = Str("Agent completed successfully")
                        /\ Get(Out.successResult, "result") = Str("done")

C17_Witness ==
    /\ translated.seen = EndToEndStream
    /\ cwdArg = Str(Workdir)
    /\ inbox = <<>>
    /\ Len(feed) = 3
    /\ feed[2].summary = Str("Read: src/app.ts")

\* the message is an assistant message with one tool_use block
OneToolUse(m) ==
    /\ IsType(m, "assistant")
    /\ Truthy(Get(m, "message"))
    /\ Get(Get(m, "message"), "content").t = "array"
    /\ Len(Get(Get(m, "message"), "content").v) = 1
    /\ ~Nullish(Get(Get(m, "message"), "content").v[1])
    /\ Get(Get(Get(m, "message"), "content").v[1], "type") = Str("tool_use")

TheBlock == Get(Get(Message, "message"), "content").v[1]

\* the block names a tool of the summary-field table and gives its field
\* a string
TableToolUse ==
    /\ translated.called
    /\ OneToolUse(Message)
    /\ Get(TheBlock, "name").t = "string"
    /\ Get(TheBlock, "name").v \in DOMAIN TOOL_SUMMARY_FIELDS
    /\ Get(TheBlock, "input").t = "object"
    /\ Get(Get(TheBlock, "input"),
           TOOL_SUMMARY_FIELDS[Get(TheBlock, "name").v]).t = "string"

RawValue ==
    Get(Get(TheBlock, "input"), TOOL_SUMMARY_FIELDS[Get(TheBlock, "name").v]).v

CwdGiven == cwdArg.t = "string" /\ cwdArg.v # ""

\* C18: for a tool of the summary-field table the summary is
\* "<tool>: <shown>"; when the raw field value starts with cwd, shown is
\* what follows that one prefix (less the one "/" that separates them), so
\* a second occurrence of cwd stays; when the value does not start with cwd,
\* or cwd is not given, shown is the raw value.
C18_PrefixStrippedOnce ==
    TableToolUse =>
        /\ ~Out.raised
        /\ Len(Out.activities) = 1
        /\ LET summary == Out.activities[1].summary.v
               badge == Get(TheBlock, "name").v \o ": "
               shown == SubSeq(summary, Len(badge) + 1, Len(summary))
               rest == SubSeq(RawValue, Len(cwdArg.v) + 1, Len(RawValue))
           IN  /\ startsWith(summary, badge)
               /\ IF CwdGiven /\ startsWith(RawValue, cwdArg.v)
                  THEN \/ rest = shown /\ ~startsWith(rest, "/")
                       \/ rest = "/" \o shown
                  ELSE shown = RawValue

\* the workdir is stripped from the front and stays where it comes again
C18_Witness ==
    /\ TableToolUse
    /\ cwdArg = Str(Workdir)
    /\ RawValue = "/w/a/w/f"
    /\ Out.activities[1].summary = Str("Read: a/w/f")

\* a terminal error result: a result whose subtype is a string other than
\* "success" and whose errors, when there are any, are a list of strings
ErrorResult ==
    /\ translated.called
    /\ IsType(Message, "result")
    /\ Get(Message, "subtype").t = "string"
    /\ Get(Message, "subtype") # Str("success")
    /\ Get(Message, "errors").t \in {"undefined", "array"}

StructuredErrors ==
    IF Get(Message, "errors").t = "array" THEN Get(Message, "errors").v ELSE <<>>

ExpectedErrorMessage ==
    IF StructuredErrors # <<>> THEN Str(JoinWith(StructuredErrors, "; "))
    ELSE Get(Message, "subtype")

OneErrorActivity ==
    /\ ~Out.raised
    /\ Len(Out.activities) = 1
    /\ Out.activities[1].type = "error"
    /\ Out.activities[1].summary.t = "string"
    /\ Out.errorMessage = ExpectedErrorMessage
    /\ Out.keys \cap TerminalKeys = {"errorMessage"}

ErrorPrefix == "Agent error: "

\* C19 as stated: a terminal error result gives exactly one error activity
\* whose summary is never longer than 200 characters, and errorMessage is
\* the structured errors joined by "; " when there are any, else the
\* subtype.
C19_SummaryAtMost200 ==
    ErrorResult =>
        /\ OneErrorActivity
        /\ Len(Out.activities[1].summary.v) <= SUMMARY_LENGTH

\* C19, amended: a terminal error result gives exactly one error activity
\* whose summary is "Agent error: " followed by the first 200 characters
\* of the error message, so never longer than 200 characters plus that
\* prefix; errorMessage is the structured errors joined by "; " when there
\* are any, else the subtype, and is not truncated.
C19_ErrorTextTruncated ==
    ErrorResult =>
        /\ OneErrorActivity
        /\ Out.activities[1].summary.v =
               ErrorPrefix \o sliceTo(ExpectedErrorMessage.v, SUMMARY_LENGTH)
        /\ Len(Out.activities[1].summary.v) <= Len(ErrorPrefix) + SUMMARY_LENGTH

\* two structured errors, joined longer than 200 characters: the summary
\* is cut, the errorMessage is whole
C19_Witness ==
    /\ ErrorResult
    /\ Len(StructuredErrors) = 2
    /\ Len(Out.errorMessage.v) > SUMMARY_LENGTH
    /\ Len(Out.activities[1].summary.v) = Len(ErrorPrefix) + SUMMARY_LENGTH

(***************************************************************************)
(* Properties of the activity log of a run                                 *)
(***************************************************************************)
Retained == IF Len(appended) < ActivityCap THEN Len(appended) ELSE ActivityCap

\* C20: after any sequence of appends to one run, the activity log is the
\* most recent min(count, cap) appended entries, in arrival order: the
\* order is kept, no entry in the log differs from the one appended, and
\* beyond the cap only the oldest entries are gone.
C20_LogIsRecentSuffix ==
    activityLog = SubSeq(appended, Len(appended) - Retained + 1, Len(appended))

\* more entries appended than the log retains, and the oldest are gone
C20_Witness ==
    /\ Len(appended) = ActivityCap + 2
    /\ Len(activityLog) = ActivityCap
    /\ appended[1] = "e1"
    /\ appended[2] = "e2"
    /\ activityLog[1] = "e3"
    /\ activityLog[ActivityCap] = "e1"

(***************************************************************************)
(* Properties of the run registry                                          *)
(***************************************************************************)
Retains(reg, id) == \E i \in 1..Len(reg.history) : reg.history[i].id = id
TerminalStatus(reg, id) ==
    (CHOOSE entry \in {reg.history[i] : i \in 1..Len(reg.history)} : entry.id = id).status
FirstTerminal(id) ==
    (CHOOSE entry \in {observed.terminated[i] : i \in 1..Len(observed.terminated)} :
        entry.id = id).status

\* C21: a run is terminated exactly once. In every step, a run that has
\* left "running" never changes status again; a run leaves "running" only
\* into the history, as its newest entry, with the status of the first
\* terminal message observed for it; a retained run keeps its terminal
\* status; and the history is the most recent HistoryCap terminated runs in
\* the order they terminated, each once (the oldest evicted first).
C21_TerminatedOnce ==
    [][\A id \in RunIds :
          /\ registry.status[id] = "done" => registry'.status[id] = "done"
          /\ registry.status[id] = "running" /\ registry'.status[id] # "running" =>
                /\ registry'.status[id] = "done"
                /\ registry'.history[Len(registry'.history)].id = id
                /\ TerminalStatus(registry', id) = FirstTerminal(id)'
          /\ Retains(registry, id) /\ Retains(registry', id) =>
                TerminalStatus(registry', id) = TerminalStatus(registry, id)
          /\ registry'.history = Latest(observed'.terminated, HistoryCap)]_vars

\* more runs have terminated than the history retains: the first one is
\* evicted, and a timed-out run is retained with its status
C21_Witness ==
    /\ Len(observed.terminated) > HistoryCap
    /\ Len(registry.history) = HistoryCap
    /\ ~Retains(registry, observed.terminated[1].id)
    /\ registry.status[observed.terminated[1].id] = "done"
    /\ \E id \in RunIds : Retains(registry, id) /\ TerminalStatus(registry, id) = "timed_out"

(***************************************************************************)
(* Properties of the dashboard server                                      *)
(***************************************************************************)
PauseRequest(req) == req.path = "/api/pause" /\ authorized(http.authToken, req)

\* C22: the pause flag starts false and is, after every step, the parity
\* of the number of pause toggles; each served POST /api/pause flips it,
\* answers 200 with the new value, and changes no run, history or queue
\* state.
C22_PauseParity ==
    [][/\ isPaused(registry') = (observed'.toggles % 2 = 1)
       /\ observed.toggles = 0 => ~isPaused(registry)
       /\ \A req \in Requests \cap {http'.request} :
             PauseRequest(req) /\ HandleRequest(req) =>
                /\ isPaused(registry') = ~isPaused(registry)
                /\ http'.response.status = 200
                /\ http'.response.data.paused = isPaused(registry')
                /\ registry'.status = registry.status
                /\ registry'.history = registry.history
                /\ registry'.queue = registry.queue]_vars

\* the second toggle has been served, over a registry with a terminated
\* run and a queued issue: the flag is false again
C22_Witness ==
    /\ observed.toggles = 2
    /\ http.request.path = "/api/pause"
    /\ http.response.status = 200
    /\ ~http.response.data.paused
    /\ ~isPaused(registry)
    /\ Len(registry.history) = 1
    /\ registry.queue > 0

Unauthenticated(req) ==
    /\ http.authToken # NULL
    /\ req.cookie # http.authToken
    /\ req.bearer # http.authToken

\* C23: with an access token configured, every request to a read endpoint
\* that carries neither the token as session cookie nor as Bearer token is
\* answered 401 with the login form (/) or the Unauthorized error, carries
\* nothing of the registry and leaves the registry as it was; with no token
\* configured every request to a read endpoint is served 200 with the
\* snapshot of the registry.
C23_AccessControl ==
    [][\A req \in Requests \cap {http'.request} :
          req.path \in ReadPaths /\ HandleRequest(req) =>
             /\ registry' = registry
             /\ Unauthenticated(req) =>
                   /\ http'.response.status = 401
                   /\ http'.response.body \in {"Dashboard Token", "Unauthorized"}
                   /\ http'.response.data = NoData
             /\ http.authToken = NULL =>
                   /\ http'.response.status = 200
                   /\ http'.response.data = getSnapshot(registry)]_vars

\* a status request with a wrong cookie and no Bearer token is refused
\* while the registry holds a running run and a queued issue
C23_Witness ==
    /\ http.authToken = TOKEN
    /\ http.request.path = "/api/status"
    /\ http.request.cookie = "wrong-token"
    /\ http.request.bearer = NULL
    /\ http.response.status = 401
    /\ http.response.data = NoData
    /\ getSnapshot(registry).agents # {}
    /\ registry.queue > 0

(***************************************************************************)
(* Properties of explain                                                   *)
(***************************************************************************)
\* C24: a run cancelled by the absolute or by the inactivity timeout ends
\* terminal and flagged timed out, keeping the result buffered before the
\* cancellation; and the report on a timed-out run warns, never takes the
\* failure exit even when an error is set, and prints the result text,
\* while a run that failed without timing out takes the failure exit.
C24_TimedOutStillReported ==
    [][/\ explain.run.st = "running" /\ explain'.run.timedOut =>
             /\ explain'.run.st = "done"
             /\ explain'.run.result = explain.run.result
       /\ explain'.report.done /\ explain'.run.timedOut =>
             /\ explain'.report.warned
             /\ explain'.report.exit = 0
             /\ explain'.run.result \notin {NULL, ""} =>
                   explain'.report.printed = explain'.run.result
       /\ explain'.report.done /\ ~explain'.run.timedOut /\ explain'.run.error # NULL =>
             /\ explain'.report.exit = 1
             /\ ~explain'.report.warned
             /\ explain'.report.printed = NULL]_vars

\* the inactivity timeout cancelled a run that had buffered a result and
\* set an error: the report printed the result and did not exit in failure
C24_Witness ==
    /\ explain.report.done
    /\ explain.run.timedOut
    /\ explain.run.inactivityTimedOut
    /\ explain.run.error = "Timed out"
    /\ explain.run.result = "partial report"
    /\ explain.report.printed = "partial report"
    /\ explain.report.exit = 0

(***************************************************************************)
(* Properties of countIssuesInState                                        *)
(***************************************************************************)
RECURSIVE NodesServed(_, _)
\* the nodes of the pages among the responses lo..hi served
NodesServed(lo, hi) ==
    IF lo > hi THEN 0
    ELSE IF lo = hi
         THEN IF pager.served[lo].ok THEN pager.served[lo].value.nodes ELSE 0
         ELSE LET mid == (lo + hi) \div 2
              IN  NodesServed(lo, mid) + NodesServed(mid + 1, hi)

PagesServed == {k \in 1..Len(pager.served) : pager.served[k].ok}

\* the cursor the k-th request has to carry: the end cursor of the page
\* fetched last before it
CursorDue(k) ==
    LET before == {i \in PagesServed : i < k}
    IN  IF before = {} THEN NULL
        ELSE pager.served[CHOOSE i \in before : \A j \in before : j <= i].value.endCursor

LastServed == pager.served[Len(pager.served)]

\* C25: the count is the sum of the node counts of the pages fetched, each
\* page once: every request, a retry included, carries the end cursor of
\* the page fetched last. The call always terminates: it fetches at most
\* MAX_PAGES pages with at most MAX_ATTEMPTS attempts each, is never stuck
\* while fetching, returns only after a page without a next page or at the
\* page limit, and has logged the page-limit warning exactly when it
\* stopped at the limit with a next page reported.
C25_CountsEveryPageOnce ==
    /\ pager.total = NodesServed(1, Len(pager.served))
    /\ pager.pages = Cardinality(PagesServed)
    /\ \A k \in 1..Len(pager.asked) : pager.asked[k] = CursorDue(k)
    /\ pager.pages <= MAX_PAGES
    /\ pager.calls <= MAX_PAGES * MAX_ATTEMPTS
    /\ pager.retry.attempts <= MAX_ATTEMPTS
    /\ pager.st = "fetching" => ENABLED (FetchPage \/ PageBackoff)
    /\ pager.st = "done" =>
          /\ LastServed.ok
          /\ ~LastServed.value.hasNextPage \/ pager.pages = MAX_PAGES
          /\ pager.warned <=> LastServed.value.hasNextPage
    /\ pager.st # "done" => ~pager.warned
    /\ pager.st = "failed" =>
          /\ ~LastServed.ok
          /\ ~isTransient(LastServed.error) \/ pager.retry.attempts = MAX_ATTEMPTS

\* every page reports a next page and the first request failed
\* transiently: the call stopped at the limit with the warning, having
\* counted each of the MAX_PAGES pages once
C25_Witness ==
    /\ pager.st = "done"
    /\ pager.warned
    /\ pager.pages = MAX_PAGES
    /\ pager.calls = MAX_PAGES + 1
    /\ pager.total = MAX_PAGES
    /\ ~pager.served[1].ok

(***************************************************************************)
(* Properties of the translator: assistant turns and terminal fields       *)
(***************************************************************************)
ArrayTurn ==
    /\ translated.called
    /\ IsType(Message, "assistant")
    /\ Truthy(Get(Message, "message"))
    /\ Get(Get(Message, "message"), "content").t = "array"

TurnBlocks == Get(Get(Message, "message"), "content").v

BlockType(block) == IF Nullish(block) THEN Undefined ELSE Get(block, "type")

RECURSIVE TypesOf(_, _)
\* the types of the blocks of a content that satisfy carries, in order
TypesOf(content, carries) ==
    IF content = <<>> THEN <<>>
    ELSE (IF BlockType(Head(content)) \in {Str("tool_use"), Str("text")}
             /\ carries[Head(content)]
          THEN <<BlockType(Head(content)).v>> ELSE <<>>)
         \o TypesOf(Tail(content), carries)

AnyBlock == [block \in {TurnBlocks[i] : i \in 1..Len(TurnBlocks)} |-> TRUE]
WithField ==
    [block \in {TurnBlocks[i] : i \in 1..Len(TurnBlocks)} |->
        \/ BlockType(block) = Str("tool_use") /\ Has(block, "name")
        \/ BlockType(block) = Str("text") /\ Has(block, "text")]

SubagentFlag ==
    IF Nullish(Get(Message, "parent_tool_use_id")) THEN Undefined ELSE JsTrue

\* the activities are one per block of types, in order, each flagged as
\* the message is, and no terminal field is set
OnePerBlock(types) ==
    /\ Out.keys = {"activities"}
    /\ Len(Out.activities) = Len(types)
    /\ \A i \in 1..Len(Out.activities) :
          /\ Out.activities[i].type = types[i]
          /\ Out.activities[i].isSubagent = SubagentFlag

\* C26: for an assistant message with an array of content blocks,
\* processAgentMessage returns exactly one activity per tool_use or text
\* block, in block order, and nothing for any other block; every activity
\* carries the sub-agent flag exactly when parent_tool_use_id is non-null,
\* and no terminal field is set.
C26_OnePerBlock ==
    ArrayTurn => ~Out.raised /\ OnePerBlock(TypesOf(TurnBlocks, AnyBlock))

\* what does hold: a call that returns gives one activity per tool_use
\* block with a name and per text block with a text
ReturnedTurnIsOnePerBlock ==
    ArrayTurn /\ ~Out.raised => OnePerBlock(TypesOf(TurnBlocks, WithField))

(***************************************************************************)
(* Properties of the getPRStatus call                                      *)
(***************************************************************************)
CIFetches == {"status", "checks"}

\* C27: for an unmerged PR, getPRStatus starts the combined-status fetch
\* and the check-runs fetch together, before either has made a request;
\* a fetch that backs off can go on whatever the state of the other, and a
\* step of one fetch (a request or a backoff) leaves the other as it was;
\* and the PRStatus returned is the verdict of the three responses,
\* whatever the order and number of the attempts that fetched them.
C27_ConcurrentFetches ==
    [][/\ pc = "pr" /\ pc' = "ci" =>
             \A e \in CIFetches : retry'[e] = StartRetry
       /\ pc = "ci" =>
             /\ \A e \in CIFetches : retry[e].st = "backoff" => ENABLED Backoff(e)
             /\ Cardinality({e \in Endpoints : retry'[e] # retry[e]}) <= 1
       /\ pc' = "done" /\ ~retry'["pr"].value.merged =>
             /\ \A e \in CIFetches : retry'[e].st = "ok"
             /\ result' = ciVerdict(retry'["pr"].value, retry'["status"].value,
                                    retry'["checks"].value)]_vars

\* the check-runs fetch resolved at its first request while the status
\* fetch needed two retries, and the call returned
C27_Witness ==
    /\ pc = "done"
    /\ ~retry["pr"].value.merged
    /\ retry["checks"].attempts = 1
    /\ retry["status"].attempts = MAX_ATTEMPTS
    /\ retry["status"].waits = MAX_ATTEMPTS - 1
    /\ result.ciStatus = "failure"

GaveUp == {e \in Endpoints : retry[e].st = "failed"}

\* C28: getPRStatus returns no partial verdict. When the PR fetch, the
\* combined-status fetch or the check-runs fetch fails fatally or exhausts
\* its retries, the call is rejected with the error of a fetch that gave
\* up and no PRStatus is returned, then or later; a PRStatus is returned
\* only with the PR fetched and, for an unmerged PR, with both the
\* combined status and the check runs fetched.
C28_NoPartialVerdict ==
    [][/\ GaveUp' # {} =>
             /\ pc' = "rejected"
             /\ result' = NoResult
             /\ \E e \in GaveUp' : thrown' = retry'[e].error
       /\ pc' = "rejected" => GaveUp' # {}
       /\ pc = "rejected" => pc' = "rejected" /\ thrown' = thrown
       /\ pc' = "done" =>
             /\ retry'["pr"].st = "ok"
             /\ thrown' = NoError
             /\ \A e \in Endpoints : retry'[e].error = NoError
             /\ ~retry'["pr"].value.merged =>
                   retry'["status"].st = "ok" /\ retry'["checks"].st = "ok"]_vars

\* the combined status was fetched and the check-runs fetch exhausted its
\* retries: the call is rejected with that error and returns nothing
C28_Witness ==
    /\ pc = "rejected"
    /\ retry["status"].st = "ok"
    /\ retry["checks"].st = "failed"
    /\ retry["checks"].attempts = MAX_ATTEMPTS
    /\ thrown = retry["checks"].error
    /\ result = NoResult

Requested == retry["pr"].attempts + retry["status"].attempts + retry["checks"].attempts

Settled(e) == retry[e].st \in {"ok", "failed"}

\* C29: a getPRStatus call makes at most MAX_ATTEMPTS requests to each
\* endpoint, 9 in all, and at most MAX_ATTEMPTS in all when the PR is merged
\* or the PR fetch fails, no CI request being made then; and it always
\* terminates: until it has resolved or rejected a step of it is possible,
\* and once the fetches it awaits have resolved it goes on to return.
C29_BoundedRequests ==
    /\ \A e \in Endpoints : retry[e].attempts <= MAX_ATTEMPTS
    /\ \A e \in Endpoints : retry[e].waits < MAX_ATTEMPTS
    /\ Requested <= Cardinality(Endpoints) * MAX_ATTEMPTS
    /\ retry["pr"].st = "failed" \/ (retry["pr"].st = "ok" /\ retry["pr"].value.merged) =>
          /\ Requested <= MAX_ATTEMPTS
          /\ \A e \in CIFetches : retry[e] = IdleRetry
    /\ pc \in {"pr", "ci"} => ENABLED NextCall
    /\ pc = "pr" /\ Settled("pr") => ENABLED ContinueAfterPR
    /\ pc = "ci" /\ (\A e \in CIFetches : Settled(e)) => ENABLED Finish

\* every endpoint was requested MAX_ATTEMPTS times, 9 requests in all, and
\* the call returned
C29_Witness ==
    /\ pc = "done"
    /\ \A e \in Endpoints : retry[e].attempts = MAX_ATTEMPTS
    /\ Requested = 9

TerminalSet == Out.keys \cap TerminalKeys

\* C30: for every message, processAgentMessage sets at most one of
\* sessionId, successResult and errorMessage: successResult only for a
\* result message of subtype success, errorMessage only for a result message
\* of another subtype, sessionId only for system/init; a field that is not
\* set is undefined; and a message that sets one of them gives exactly one
\* activity.
C30_OneTerminalField ==
    translated.called =>
        /\ Cardinality(TerminalSet) <= 1
        /\ "successResult" \in Out.keys =>
              IsType(Message, "result") /\ Get(Message, "subtype") = Str("success")
        /\ "errorMessage" \in Out.keys =>
              IsType(Message, "result") /\ Get(Message, "subtype") # Str("success")
        /\ "sessionId" \in Out.keys =>
              IsType(Message, "system") /\ Get(Message, "subtype") = Str("init")
        /\ "sessionId" \notin Out.keys => Out.sessionId = Undefined
        /\ "successResult" \notin Out.keys => Out.successResult = Undefined
        /\ "errorMessage" \notin Out.keys => Out.errorMessage = Undefined
        /\ TerminalSet # {} => Len(Out.activities) = 1

\* a success result: successResult alone is set, with one result activity
C30_Witness ==
    /\ translated.called
    /\ IsType(Message, "result")
    /\ TerminalSet = {"successResult"}
    /\ Out.successResult # Undefined
    /\ Len(Out.activities) = 1
    /\ Out.activities[1].type = "result"

====
